---- MODULE Spec2Model ----
(***************************************************************************)
(* A model of the solio-autosolve pipeline: main.py's main drives          *)
(* ensure_logged_in (login.py), run_solve_on_page, apply_solver_settings,  *)
(* click_optimise_button, wait_for_solve_completion and fetch_results      *)
(* (solve.py), then the parser and the e-mail step.                        *)
(*                                                                         *)
(* The browser page is the environment: whatever the program observes of   *)
(* it (a control's presence, a dialog's visibility, a slider attribute) is *)
(* chosen nondeterministically at the moment the code observes it.  A      *)
(* Playwright call that can raise is modelled with its raising outcome.    *)
(***************************************************************************)
EXTENDS Integers, Sequences, FiniteSets, TLC

VARIABLES
    pc,              \* position of the single thread of control
    args,            \* parsed command line of main
    browserOpen,     \* the browser context exists and is not closed
    pending,         \* what main does once its finally block has run
    exit,            \* how the process ended
    trace,           \* milestones of the run, in the order they happened
    elapsed,         \* time.time() - start_time of the poll loop in progress
                     \* (0 outside a loop)
    loginRet,        \* outcome of ensure_logged_in
    lui,             \* page operations issued by login_to_solio and what it
                     \* saw of the button and the dialog, in order
    roundtrip,       \* how the identity-provider round trip ended
    seen,            \* what is_logged_in saw of the login dialog, in order
    settings,        \* the settings dict of run_solve_on_page
    timeout_seconds, \* the poll bound of run_solve_on_page
    frame,           \* locals of apply_solver_settings
    ui,              \* page operations issued by apply_solver_settings for the
                     \* setting it is working on, in order
    slider,          \* the horizon slider of the page (environment)
    optimise,        \* what click_optimise_button found and did
    checks,          \* completion checks made by wait_for_solve_completion
    completed,       \* return value of wait_for_solve_completion
    solve_results,   \* return value of run_solve_on_page
    files,           \* snapshot files written to OUTPUT_DIR by this run
    parsed,          \* parse_results_file has returned
    popup,           \* the operations performed on the OAuth popup page
    marker,          \* what the last completion check saw of 'Preview Result'
    now,             \* datetime.now(), in clock ticks
    output_dir,      \* OUTPUT_DIR: file name |-> content of results_*.html
    results,         \* the results dict of fetch_results
    html_content,    \* the markup handed to parse_results_html
    parse_out,       \* the SolveResults parse_results_html returned
    popup_page,      \* where the page taken for the OAuth popup came from
    settings_file,   \* the mapping as load_solver_settings read it, until the stage starts
                     \* solver_settings.yaml
    mail,            \* the mail environment send_results_email runs in
    parse_log        \* the calls of parse_results_html so far: markup and
                     \* returned value, in order

vars == <<pc, args, browserOpen, pending, exit, trace, elapsed, loginRet, lui,
          roundtrip, seen, settings, timeout_seconds, frame, ui, slider, optimise,
          checks, completed, solve_results, files, parsed, popup, marker, now,
          output_dir, results, html_content, parse_out, popup_page,
          settings_file, mail, parse_log>>

(***************************************************************************)
(* Bounds of the model.                                                    *)
(***************************************************************************)
\* largest horizon_weeks a settings file or --horizon supplies
MaxHorizon == 4
\* largest aria-valuemax the slider declares
MaxSliderMax == 3
\* largest timeout (seconds) a settings file supplies
MaxTimeout == 6
\* largest time (in the loop's unit) one poll iteration takes beyond its sleep
MaxOverrun == 1
\* most plan regions a markup holds
MaxPlans == 3
\* clock ticks in one second of datetime.now()
TicksPerSecond == 2
\* most calls of parse_results_file one process makes
MaxParses == 3
\* last clock tick at which a solve attempt captures
MaxTick == 5

(***************************************************************************)
(* Program constants.                                                      *)
(***************************************************************************)
\* a missing dict key, a missing attribute, an option not given (None)
Absent == 0 - 1
\* settings.get('horizon_weeks', 10)
DefaultHorizon == 10
\* settings.get("timeout", timeout_seconds) with timeout_seconds = 300
DefaultTimeout == 300
\* settings.get('decision_disruption_probability', 0.5), in thousandths
DefaultDdp == 500
\* int(slider.get_attribute("aria-valuemax") or "10")
DefaultSliderMax == 10
\* int(slider.get_attribute("aria-valuenow") or "10")
DefaultSliderNow == 10
\* the selector [aria-valuemin="1"] fixes the declared minimum
SliderMin == 1
\* login_to_solio: max_wait = 5 seconds, polled every 0.1 s; unit 0.1 s
LoginButtonMaxWait == 50
\* login_to_solio: max_wait = 180 seconds, polled every 0.5 s; unit 0.5 s
PopupMaxWait == 360
\* wait_for_solve_completion: time.sleep(5); unit 1 s
PollInterval == 5

Overruns == 0..MaxOverrun

Has(s, e) == \E i \in 1..Len(s) : s[i] = e

Count(s, e) == Cardinality({i \in 1..Len(s) : s[i] = e})

\* index of the first occurrence of e in s, 0 when there is none
First(s, e) == IF Has(s, e) THEN CHOOSE i \in 1..Len(s) : s[i] = e /\ \A j \in 1..(i-1) : s[j] # e ELSE 0

\* index of the last occurrence of e in s, 0 when there is none
Last(s, e) == IF Has(s, e) THEN CHOOSE i \in 1..Len(s) : s[i] = e /\ \A j \in (i+1)..Len(s) : s[j] # e ELSE 0

(***************************************************************************)
(* parser.py.  A text is a sequence of characters; a markup is its         *)
(* evaluation region (the div whose class holds "evaluationNode") and the  *)
(* sequence of its plan regions (the div elements whose class holds        *)
(* "planNode"), in document order.  A region says which of the elements    *)
(* the parser looks for are there, and their texts.  Numbers with a        *)
(* fraction are counted in tenths.                                         *)
(***************************************************************************)
\* a value that does not exist yet (None, an unset local)
Nothing == [nothing |-> TRUE]

\* an exception that leaves parse_results_html
ValueError == [raised |-> "ValueError"]

DigitChars == <<"0", "1", "2", "3", "4", "5", "6", "7", "8", "9">>

IsDigit(c) == \E d \in 1..Len(DigitChars) : DigitChars[d] = c

\* the character classes \d (dot FALSE) and [\d.] (dot TRUE)
InClass(c, dot) == IsDigit(c) \/ (dot /\ c = ".")

DigitValue(c) == (CHOOSE d \in 1..Len(DigitChars) : DigitChars[d] = c) - 1

\* re.search of a character class repeated (+): where the leftmost match
\* starts, 0 for no match
RunStart(text, dot) ==
    IF \E i \in 1..Len(text) : InClass(text[i], dot)
      THEN CHOOSE i \in 1..Len(text) :
               InClass(text[i], dot) /\ \A j \in 1..(i - 1) : ~InClass(text[j], dot)
      ELSE 0

\* where that match ends: + is greedy
RunEnd(text, dot) ==
    CHOOSE e \in RunStart(text, dot)..Len(text) :
        /\ e = Len(text) \/ ~InClass(text[e + 1], dot)
        /\ \A k \in RunStart(text, dot)..e : InClass(text[k], dot)

\* match.group(), <<>> for no match
Group(text, dot) ==
    IF RunStart(text, dot) = 0 THEN <<>>
    ELSE SubSeq(text, RunStart(text, dot), RunEnd(text, dot))

\* re.search(r"\d+", text)
SearchStart(text) == RunStart(text, FALSE)

SearchEnd(text) == RunEnd(text, FALSE)

\* int() refuses a digit string longer than sys.get_int_max_str_digits(),
\* 4300 unless the interpreter is told otherwise
MaxStrDigits == 4300

\* int(digits) raises ValueError
IntRaises(digits) == Len(digits) > MaxStrDigits

\* int(digits) of a string of digits
RECURSIVE IntOf(_)
IntOf(digits) ==
    IF digits = <<>> THEN 0
    ELSE 10 * IntOf(SubSeq(digits, 1, Len(digits) - 1))
            + DigitValue(digits[Len(digits)])

\* float(text) raises ValueError: text is not digits with at most one point
\* (signs, exponents, inf and nan are not among the texts looked at)
FloatRaises(text) ==
    \/ \E i \in 1..Len(text) : ~InClass(text[i], TRUE)
    \/ Cardinality({i \in 1..Len(text) : text[i] = "."}) > 1
    \/ \A i \in 1..Len(text) : ~IsDigit(text[i])

\* float(text) in tenths, for a text with at most one digit after the point
FloatOf(text) ==
    LET point == IF \E i \in 1..Len(text) : text[i] = "."
                   THEN CHOOSE i \in 1..Len(text) : text[i] = "."
                   ELSE Len(text) + 1
    IN  10 * IntOf(SubSeq(text, 1, point - 1))
          + IntOf(SubSeq(text, point + 1, Len(text)))

\* lines 56-65: total_points
TotalPoints(eval) ==
    IF eval.eval_node /\ eval.pts_span /\ ~FloatRaises(eval.pts_text)
      THEN FloatOf(eval.pts_text)
      ELSE 0

\* lines 68-78: final_bank, from the summary line with the pound icon
FinalBank(eval) ==
    IF /\ eval.eval_node
       /\ eval.bank_p
       /\ Group(eval.bank_text, TRUE) # <<>>
       /\ ~FloatRaises(Group(eval.bank_text, TRUE))
      THEN FloatOf(Group(eval.bank_text, TRUE))
      ELSE 0

\* lines 79-86: total_transfers, from the summary line with the arrows icon
TotalTransfers(eval) ==
    IF /\ eval.eval_node
       /\ eval.count_p
       /\ Group(eval.count_text, FALSE) # <<>>
       /\ ~IntRaises(Group(eval.count_text, FALSE))
      THEN IntOf(Group(eval.count_text, FALSE))
      ELSE 0

\* gw_sort_key taking the first digit alone for the number
gw_sort_key_FirstDigit(plan) ==
    IF SearchStart(plan.gameweek) = 0 THEN 0
    ELSE DigitValue(plan.gameweek[SearchStart(plan.gameweek)])

\* lines 178-180
gw_sort_key(plan) ==
    IF SearchStart(plan.gameweek) = 0 THEN 0
    ELSE IntOf(SubSeq(plan.gameweek, SearchStart(plan.gameweek),
                      SearchEnd(plan.gameweek)))

\* line 180: int(match.group()) raises; nothing around it catches
KeyRaises(plan) ==
    /\ SearchStart(plan.gameweek) # 0
    /\ SearchEnd(plan.gameweek) - SearchStart(plan.gameweek) + 1 > MaxStrDigits

\* Zip going on to the end of the longer list, with empty names for the
\* missing partners
Zip_Longest(out_players, in_players) ==
    [i \in 1..(IF Len(out_players) >= Len(in_players)
                 THEN Len(out_players) ELSE Len(in_players)) |->
        [out_player |-> IF i <= Len(out_players) THEN out_players[i] ELSE "",
         in_player |-> IF i <= Len(in_players) THEN in_players[i] ELSE ""]]

\* zip(out_players, in_players) of line 164, as Transfer objects
Zip(out_players, in_players) ==
    [i \in 1..(IF Len(out_players) <= Len(in_players)
                 THEN Len(out_players) ELSE Len(in_players)) |->
        [out_player |-> out_players[i], in_player |-> in_players[i]]]

\* lines 138-165: the transfers of one plan region
Transfers(node) ==
    IF node.transfer_div /\ node.in_div
      THEN Zip(IF node.out_div THEN node.out_players ELSE <<>>, node.in_players)
      ELSE <<>>

\* lines 99-175: the GameweekPlan of a region that has the gameweek element.
\* The points range is looked for in the span around the grade element.
Plan(node) ==
    [gameweek |-> node.gameweek,
     grade |-> IF node.grade_elem THEN node.grade ELSE "",
     points_range |-> IF node.grade_elem THEN node.points ELSE "",
     transfers_used |-> IF node.transfers_p THEN node.transfers_used ELSE "",
     bank |-> IF node.bank_p THEN node.bank ELSE "",
     transfers |-> Transfers(node)]

\* lines 89-99 and 175: the loop over plan_nodes, starting from the empty
\* list; a region without the gameweek element is passed over
RECURSIVE ExtractPlans(_)
ExtractPlans(plan_nodes) ==
    IF plan_nodes = <<>> THEN <<>>
    ELSE LET node == plan_nodes[Len(plan_nodes)]
             before == ExtractPlans(SubSeq(plan_nodes, 1, Len(plan_nodes) - 1))
         IN  IF ~node.gw_elem THEN before
             ELSE Append(before, Plan(node))

\* InsertPlan putting the plan in front of the plans of the same number
InsertPlan_BeforeEqual(sorted, plan) ==
    LET k == Cardinality({i \in 1..Len(sorted) :
                            gw_sort_key(sorted[i]) < gw_sort_key(plan)})
    IN  SubSeq(sorted, 1, k) \o <<plan>> \o SubSeq(sorted, k + 1, Len(sorted))

\* one step of list.sort(key=gw_sort_key): the plan goes behind every plan
\* whose key is not greater (the sort is stable)
InsertPlan(sorted, plan) ==
    LET k == Cardinality({i \in 1..Len(sorted) :
                            gw_sort_key(sorted[i]) <= gw_sort_key(plan)})
    IN  SubSeq(sorted, 1, k) \o <<plan>> \o SubSeq(sorted, k + 1, Len(sorted))

\* gameweek_plans.sort(key=gw_sort_key)
RECURSIVE SortPlans(_)
SortPlans(plans) ==
    IF plans = <<>> THEN <<>>
    ELSE InsertPlan(SortPlans(SubSeq(plans, 1, Len(plans) - 1)), plans[Len(plans)])

\* parse_results_html with gameweek_plans kept from call to call instead of
\* starting empty: the plans of the calls before are still in it
parse_results_html_SharedList(html) ==
    LET before == IF parse_out = Nothing THEN <<>> ELSE parse_out.gameweek_plans
        gameweek_plans == before \o ExtractPlans(html.plan_nodes)
    IN  IF \E i \in 1..Len(gameweek_plans) : KeyRaises(gameweek_plans[i])
          THEN ValueError
          ELSE [total_points |-> TotalPoints(html.eval),
                total_transfers |-> TotalTransfers(html.eval),
                final_bank |-> FinalBank(html.eval),
                gameweek_plans |-> SortPlans(gameweek_plans)]

\* parse_results_html(html_content).  list.sort computes the key of every
\* plan before it orders them, so one key that raises ends the parse.
parse_results_html(html) ==
    LET gameweek_plans == ExtractPlans(html.plan_nodes)
    IN  IF \E i \in 1..Len(gameweek_plans) : KeyRaises(gameweek_plans[i])
          THEN ValueError
          ELSE [total_points |-> TotalPoints(html.eval),
                total_transfers |-> TotalTransfers(html.eval),
                final_bank |-> FinalBank(html.eval),
                gameweek_plans |-> SortPlans(gameweek_plans)]

\* gameweek labels of the markups looked at: GW1, GW3, GW17, one without a
\* digit, one more that holds the number 3, and one with two numbers
LabelInputs ==
    {<<"G", "W", "1">>, <<"G", "W", "3">>, <<"G", "W", "1", "7">>, <<"G", "W">>,
     <<"W", "k", "3">>, <<"2", "a", "1">>}

\* a label that is one digit more than int() accepts
LongLabel == [i \in 1..(MaxStrDigits + 1) |-> "1"]

OutNames == <<"Salah", "Haaland", "Saka">>

InNames == <<"Palmer", "Isak">>

\* the transfer part of a region: the max-w-22 div, its opacity-50 div with
\* the outgoing names, and the div after the arrow with the incoming names
XferInputs ==
    {[transfer_div |-> FALSE, out_div |-> FALSE, out_players |-> <<>>,
      in_div |-> FALSE, in_players |-> <<>>]}
    \cup
    {[transfer_div |-> TRUE, out_div |-> x.od, out_players |-> x.op,
      in_div |-> x.id, in_players |-> x.ip] :
        x \in {y \in [od : BOOLEAN, id : BOOLEAN,
                      op : {<<>>, OutNames},
                      ip : {<<>>, InNames}] :
                 /\ y.od <=> y.op # <<>>
                 /\ y.id <=> y.ip # <<>>}}

\* a region with one outgoing and two incoming names
OneForTwo ==
    [transfer_div |-> TRUE, out_div |-> TRUE, out_players |-> SubSeq(OutNames, 1, 1),
     in_div |-> TRUE, in_players |-> InNames]

\* a region without the transfer part
NoXfer ==
    [transfer_div |-> FALSE, out_div |-> FALSE, out_players |-> <<>>,
     in_div |-> FALSE, in_players |-> <<>>]

\* which of the grade element, the Transfers line and the Bank line a
\* region has
FieldInputs == [grade_elem : BOOLEAN, transfers_p : BOOLEAN, bank_p : BOOLEAN]

AllFields == [grade_elem |-> TRUE, transfers_p |-> TRUE, bank_p |-> TRUE]

NoFields == [grade_elem |-> FALSE, transfers_p |-> FALSE, bank_p |-> FALSE]

Node(gw_elem, gameweek, x, f) ==
    [gw_elem |-> gw_elem, gameweek |-> gameweek,
     grade_elem |-> f.grade_elem, grade |-> "A-", points |-> "60-73 pts",
     transfers_p |-> f.transfers_p, transfers_used |-> "1 / 3",
     bank_p |-> f.bank_p, bank |-> "1.5",
     transfer_div |-> x.transfer_div,
     out_div |-> x.out_div, out_players |-> x.out_players, in_div |-> x.in_div,
     in_players |-> x.in_players]

\* the plan regions looked at: every label with one transfer part, a region
\* without the gameweek element, one label with every transfer part, and a
\* region with a label without digits and nothing else
NodeInputs ==
    {Node(TRUE, l, OneForTwo, AllFields) : l \in LabelInputs}
    \cup {Node(FALSE, <<>>, OneForTwo, AllFields)}
    \cup {Node(TRUE, <<"G", "W", "3">>, x, AllFields) : x \in XferInputs}
    \cup {Node(TRUE, <<"G", "W">>, NoXfer, NoFields)}

\* regions with each combination of the grade, Transfers and Bank elements
FieldNodes == {Node(TRUE, <<"G", "W", "3">>, OneForTwo, f) : f \in FieldInputs}

\* a region with the long label
LongNode == Node(TRUE, LongLabel, OneForTwo, AllFields)

\* texts of the total-points span: a number, a whole number, a number
\* followed by a letter
PtsTexts == {<<"6", ".", "5">>, <<"6", "5">>, <<"6", ".", "5", "p">>}

\* texts of the bank line: a number behind a letter, a point alone, no digit
BankTexts == {<<"b", "0", ".", "1">>, <<".">>, <<"m">>}

\* texts of the transfer-count line: a number, no digit
CountTexts == {<<"1", "0">>, <<"x">>}

\* an evaluation region with everything in it
FullEval ==
    [eval_node |-> TRUE, pts_span |-> TRUE, pts_text |-> <<"6", ".", "5">>,
     bank_p |-> TRUE, bank_text |-> <<"b", "0", ".", "1">>,
     count_p |-> TRUE, count_text |-> <<"1", "0">>]

\* no evaluation region
NoEval ==
    [eval_node |-> FALSE, pts_span |-> FALSE, pts_text |-> <<>>,
     bank_p |-> FALSE, bank_text |-> <<>>, count_p |-> FALSE, count_text |-> <<>>]

\* the evaluation regions looked at
EvalInputs ==
    {NoEval}
    \cup
    {[eval_node |-> TRUE, pts_span |-> e.ps, pts_text |-> e.pt,
      bank_p |-> e.bp, bank_text |-> e.bt, count_p |-> e.cp, count_text |-> e.ct] :
        e \in {y \in [ps : BOOLEAN, pt : PtsTexts \cup {<<>>},
                      bp : BOOLEAN, bt : BankTexts \cup {<<>>},
                      cp : BOOLEAN, ct : CountTexts \cup {<<>>}] :
                 /\ y.ps <=> y.pt # <<>>
                 /\ y.bp <=> y.bt # <<>>
                 /\ y.cp <=> y.ct # <<>>}}

Markup(eval, plan_nodes) == [eval |-> eval, plan_nodes |-> plan_nodes]

\* the markups looked at by the parser's specification: every sequence of
\* up to MaxPlans regions under a full evaluation region, every evaluation
\* region over no region or one of FieldNodes, and the long label with and
\* without an evaluation region
Documents ==
    {Markup(FullEval, nodes) :
        nodes \in UNION {[1..n -> NodeInputs] : n \in 0..MaxPlans}}
    \cup
    {Markup(e, nodes) :
        e \in EvalInputs, nodes \in {<<>>} \cup {<<node>> : node \in FieldNodes}}
    \cup {Markup(e, <<LongNode>>) : e \in {FullEval, NoEval}}

\* the markups a page of the pipeline shows: no result yet, or one plan
PageMarkups ==
    {Markup(NoEval, <<>>),
     Markup(FullEval, <<Node(TRUE, <<"G", "W", "3">>, OneForTwo, AllFields)>>)}

(***************************************************************************)
(* OUTPUT_DIR and the snapshot's file name (solve.py lines 299-302).       *)
(***************************************************************************)
EmptyDir == [name \in {} |-> Nothing]

\* datetime.now().strftime("%Y%m%d_%H%M%S"): the clock cut to whole seconds
FileName(t) == t \div TicksPerSecond

\* output_file.write_text(text): creates the file or replaces its content
WriteText(dir, name, text) ==
    [n \in DOMAIN dir \cup {name} |-> IF n = name THEN text ELSE dir[n]]

(***************************************************************************)
(* main.py: the command line.                                              *)
(***************************************************************************)
HorizonInputs == 0..MaxHorizon

\* decision_disruption_probability values a settings file supplies, in
\* thousandths
DdpInputs == {125}

TimeoutInputs == {0, MaxTimeout}

ArgSet ==
    [no_solve : BOOLEAN, no_email : BOOLEAN,
     horizon : {Absent, MaxHorizon - 1}, ddp : {Absent, 900}]

NoFrame ==
    [horizon_success |-> FALSE, decision_success |-> FALSE,
     horizon_weeks |-> Absent, min_val |-> Absent, max_val |-> Absent,
     current_val |-> Absent, target_val |-> Absent, steps |-> Absent,
     i |-> 0, new_val |-> Absent, horizon_end |-> "none",
     decision_end |-> "none", preset |-> "", ret |-> "none"]

NoSettings == [timeout |-> Absent, horizon_weeks |-> Absent, ddp |-> Absent]

NoSlider == [max |-> Absent, now |-> Absent]

Init ==
    /\ pc = "main"
    /\ args \in ArgSet
    /\ browserOpen = FALSE
    /\ pending = "none"
    /\ exit = "running"
    /\ trace = <<>>
    /\ elapsed = 0
    /\ loginRet = "none"
    /\ lui = <<>>
    /\ roundtrip = "none"
    /\ seen = <<>>
    /\ settings = NoSettings
    /\ timeout_seconds = DefaultTimeout
    /\ frame = NoFrame
    /\ ui = <<>>
    /\ slider = NoSlider
    /\ optimise = "none"
    /\ checks = 0
    /\ completed = "none"
    /\ solve_results = "none"
    /\ files = 0
    /\ parsed = FALSE
    /\ popup = {}
    /\ marker = "none"
    /\ now = 0
    /\ output_dir \in
         IF args.no_solve
           THEN {EmptyDir} \cup {WriteText(EmptyDir, FileName(0), d) : d \in PageMarkups}
           ELSE {EmptyDir}
    /\ results = Nothing
    /\ html_content = Nothing
    /\ parse_out = Nothing
    /\ popup_page = "none"
    /\ settings_file = Nothing
    /\ mail = "none"
    /\ parse_log = <<>>

(***************************************************************************)
(* main.py, main: lines 63-77.  With --no-solve the solve block is skipped *)
(* and the most recent results file is parsed; otherwise the browser       *)
(* context is created and the try block is entered.                        *)
(***************************************************************************)
Main_Start ==
    /\ pc = "main"
    /\ IF args.no_solve
         THEN /\ pc' = "parse"
              /\ UNCHANGED browserOpen
         ELSE /\ pc' = "goto"
              /\ browserOpen' = TRUE
    /\ UNCHANGED <<args, pending, exit, trace, elapsed, loginRet, lui, roundtrip,
                   seen, settings, timeout_seconds, frame, ui, slider, optimise,
                   checks, completed, solve_results, files, parsed>>
    /\ UNCHANGED <<popup, marker, now, output_dir, results, html_content,
                   parse_out, popup_page, settings_file, mail, parse_log>>

\* what is left alone by every step of login.py
ClickFrame ==
    UNCHANGED <<args, browserOpen, exit, settings, timeout_seconds, frame, ui,
                slider, optimise, checks, completed, solve_results, files, parsed,
                marker, now, output_dir, results, html_content, parse_out,
                settings_file, mail, parse_log>>

\* what is left alone by every step of login.py, the popup page apart
PopupFrame ==
    /\ ClickFrame
    /\ UNCHANGED popup_page

\* what is left alone by every step of login.py that does not touch the popup
LoginFrame ==
    /\ PopupFrame
    /\ UNCHANGED popup

\* ensure_logged_in returns True: main goes on to run_solve_on_page
LoginReturnsTrue ==
    /\ loginRet' = "true"
    /\ trace' = Append(trace, "login_ok")
    /\ pc' = "rsp_wait"
    /\ UNCHANGED pending

\* LoginReturnsFalse with the return value of ensure_logged_in not looked at
LoginReturnsFalse_Ignored ==
    /\ loginRet' = "false"
    /\ trace' = Append(trace, "login_failed")
    /\ pc' = "rsp_wait"
    /\ UNCHANGED pending

\* ensure_logged_in returns False: main prints the error and returns 1,
\* leaving the try block through its finally clause
LoginReturnsFalse ==
    /\ loginRet' = "false"
    /\ trace' = Append(trace, "login_failed")
    /\ pc' = "finally"
    /\ pending' = "1"

(***************************************************************************)
(* login.py, ensure_logged_in and is_logged_in.                            *)
(***************************************************************************)
EnsureLoggedIn_Goto ==
    /\ pc = "goto"
    /\ pc' = "ili_wait"
    /\ UNCHANGED <<pending, trace, elapsed, loginRet, lui, roundtrip>>
    /\ UNCHANGED seen
    /\ LoginFrame

\* wait_for_load_state("networkidle", 15 s): an exception makes is_logged_in
\* return False, and ensure_logged_in then calls login_to_solio
IsLoggedIn_Wait ==
    /\ pc = "ili_wait"
    /\ \E idle \in BOOLEAN :
         pc' = IF idle THEN "ili_first" ELSE "l_wait_dialog"
    /\ UNCHANGED <<pending, trace, elapsed, loginRet, lui, roundtrip>>
    /\ UNCHANGED seen
    /\ LoginFrame

\* first inspection of the login dialog
IsLoggedIn_First ==
    /\ pc = "ili_first"
    /\ \E visible \in BOOLEAN :
         /\ seen' = Append(seen, visible)
         /\ IF visible
              THEN /\ pc' = "ili_recheck"
                   /\ UNCHANGED <<pending, trace, loginRet>>
              ELSE LoginReturnsTrue
    /\ UNCHANGED <<elapsed, lui, roundtrip>>
    /\ LoginFrame

\* IsLoggedIn_Recheck without the debounce: a dialog seen at the first
\* inspection sends the run into login_to_solio whatever the re-check shows
IsLoggedIn_Recheck_NoDebounce ==
    /\ pc = "ili_recheck"
    /\ \E visible \in BOOLEAN :
         seen' = Append(seen, visible)
    /\ pc' = "l_wait_dialog"
    /\ UNCHANGED <<pending, trace, loginRet>>
    /\ UNCHANGED <<elapsed, lui, roundtrip>>
    /\ LoginFrame

\* re-check after time.sleep(1)
IsLoggedIn_Recheck ==
    /\ pc = "ili_recheck"
    /\ \E visible \in BOOLEAN :
         /\ seen' = Append(seen, visible)
         /\ IF visible
              THEN /\ pc' = "l_wait_dialog"
                   /\ UNCHANGED <<pending, trace, loginRet>>
              ELSE LoginReturnsTrue
    /\ UNCHANGED <<elapsed, lui, roundtrip>>
    /\ LoginFrame

(***************************************************************************)
(* login.py, login_to_solio.                                               *)
(***************************************************************************)
\* page.wait_for_selector(dialog, timeout=10000) returned
Login_WaitDialog ==
    /\ pc = "l_wait_dialog"
    /\ pc' = "l_terms"
    /\ trace' = Append(trace, "login_begin")
    /\ UNCHANGED <<pending, elapsed, loginRet, lui, roundtrip>>
    /\ UNCHANGED seen
    /\ LoginFrame

\* terms_checkbox.click(); start_time = time.time()
Login_Terms ==
    /\ pc = "l_terms"
    /\ lui' = Append(lui, "terms_click")
    /\ elapsed' = 0
    /\ pc' = "l_poll"
    /\ UNCHANGED <<pending, trace, loginRet, roundtrip>>
    /\ UNCHANGED seen
    /\ LoginFrame

\* Login_PollButton without the else clause of the while loop: the button is
\* clicked when the poll runs out
Login_PollButton_ClickAnyway ==
    /\ pc = "l_poll"
    /\ IF elapsed < LoginButtonMaxWait
         THEN /\ \E enabled \in BOOLEAN, d \in Overruns :
                   IF enabled
                     THEN /\ pc' = "l_click"
                          /\ lui' = Append(lui, "button_enabled")
                          /\ elapsed' = 0
                     ELSE /\ pc' = "l_poll"
                          /\ elapsed' = elapsed + 1 + d
                          /\ UNCHANGED lui
         ELSE /\ pc' = "l_click"
              /\ elapsed' = 0
              /\ UNCHANGED lui
    /\ UNCHANGED <<pending, trace, loginRet>>
    /\ UNCHANGED roundtrip
    /\ UNCHANGED seen
    /\ LoginFrame

\* while time.time() - start_time < max_wait: ... else: return False
Login_PollButton ==
    /\ pc = "l_poll"
    /\ IF elapsed < LoginButtonMaxWait
         THEN /\ \E enabled \in BOOLEAN, d \in Overruns :
                   IF enabled
                     THEN /\ pc' = "l_click"
                          /\ lui' = Append(lui, "button_enabled")
                          /\ elapsed' = 0
                     ELSE /\ pc' = "l_poll"
                          /\ elapsed' = elapsed + 1 + d
                          /\ UNCHANGED lui
              /\ UNCHANGED <<pending, trace, loginRet>>
         ELSE /\ LoginReturnsFalse
              /\ UNCHANGED <<elapsed, lui>>
    /\ UNCHANGED roundtrip
    /\ UNCHANGED seen
    /\ LoginFrame

\* Login_Click waiting for a popup to close also when it saw neither a
\* redirect nor a second page
Login_Click_NeitherWaits ==
    /\ pc = "l_click"
    /\ lui' = Append(lui, "google_click")
    /\ \E at_google, opened, other \in BOOLEAN :
         LET effect == IF at_google THEN "redirect"
                       ELSE IF opened \/ other THEN "popup"
                       ELSE "neither"
         IN  /\ pc' = CASE effect = "redirect" -> "l_redirect"
                        [] effect = "popup" -> "l_popup"
                        [] OTHER -> "l_popup"
             /\ roundtrip' = effect
             /\ popup_page' = IF effect # "popup" THEN "none"
                              ELSE IF opened THEN "opened_by_click"
                              ELSE "already_there"
    /\ elapsed' = 0
    /\ UNCHANGED <<pending, trace, loginRet>>
    /\ UNCHANGED <<seen, popup>>
    /\ ClickFrame

\* google_button.click(); time.sleep(2); then one look at page.url and, when
\* the page is not at Google, one at context.pages (lines 61-79).
\*   at_google: the page has gone to the identity provider
\*   opened:    the click has opened a page
\*   other:     the context held a second page before the click
\* With more than one page in the context, popup_page = pages[-1], the page
\* created last.
Login_Click ==
    /\ pc = "l_click"
    /\ lui' = Append(lui, "google_click")
    /\ \E at_google, opened, other \in BOOLEAN :
         LET effect == IF at_google THEN "redirect"
                       ELSE IF opened \/ other THEN "popup"
                       ELSE "neither"
         IN  /\ pc' = CASE effect = "redirect" -> "l_redirect"
                        [] effect = "popup" -> "l_popup"
                        [] OTHER -> "l_settle"
             /\ roundtrip' = effect
             /\ popup_page' = IF effect # "popup" THEN "none"
                              ELSE IF opened THEN "opened_by_click"
                              ELSE "already_there"
    /\ elapsed' = 0
    /\ UNCHANGED <<pending, trace, loginRet>>
    /\ UNCHANGED <<seen, popup>>
    /\ ClickFrame

\* page.wait_for_url(..., timeout=180000); its TimeoutError is caught
Login_Redirect ==
    /\ pc = "l_redirect"
    /\ \E back \in BOOLEAN :
         roundtrip' = IF back THEN "redirect_returned" ELSE "redirect_timeout"
    /\ pc' = "l_settle"
    /\ UNCHANGED <<pending, trace, elapsed, loginRet, lui>>
    /\ UNCHANGED seen
    /\ LoginFrame

\* Login_PollPopup closing the popup itself when the wait runs out
Login_PollPopup_ClosesPopup ==
    /\ pc = "l_popup"
    /\ IF elapsed < PopupMaxWait
         THEN \E closed \in BOOLEAN, d \in Overruns :
                /\ popup' = popup \cup {"is_closed"}
                /\ IF closed
                     THEN /\ pc' = "l_settle"
                          /\ roundtrip' = "popup_closed"
                          /\ elapsed' = 0
                     ELSE /\ pc' = "l_popup"
                          /\ elapsed' = elapsed + 1 + d
                          /\ UNCHANGED roundtrip
         ELSE /\ pc' = "l_settle"
              /\ roundtrip' = "popup_timeout"
              /\ elapsed' = 0
              /\ popup' = popup \cup {"close"}
    /\ UNCHANGED <<pending, trace, loginRet, lui>>
    /\ UNCHANGED seen
    /\ PopupFrame

\* while time.time() - start < max_wait: if popup_page.is_closed(): break
\* else time.sleep(0.5).  popup_page.is_closed() is the one call made on the
\* popup page.
Login_PollPopup ==
    /\ pc = "l_popup"
    /\ IF elapsed < PopupMaxWait
         THEN \E closed \in BOOLEAN, d \in Overruns :
                /\ popup' = popup \cup {"is_closed"}
                /\ IF closed
                     THEN /\ pc' = "l_settle"
                          /\ roundtrip' = "popup_closed"
                          /\ elapsed' = 0
                     ELSE /\ pc' = "l_popup"
                          /\ elapsed' = elapsed + 1 + d
                          /\ UNCHANGED roundtrip
         ELSE /\ pc' = "l_settle"
              /\ roundtrip' = "popup_timeout"
              /\ elapsed' = 0
              /\ UNCHANGED popup
    /\ UNCHANGED <<pending, trace, loginRet, lui>>
    /\ UNCHANGED seen
    /\ PopupFrame

\* Login_Settle with the TimeoutError of the hidden-wait swallowed: login
\* returns True although the dialog is still there
Login_Settle_Optimistic ==
    /\ pc = "l_settle"
    /\ \E hidden \in BOOLEAN :
         lui' = Append(lui, IF hidden THEN "dialog_hidden" ELSE "dialog_visible")
    /\ LoginReturnsTrue
    /\ UNCHANGED <<elapsed, roundtrip>>
    /\ UNCHANGED seen
    /\ LoginFrame

\* time.sleep(3); page.wait_for_selector(dialog, state="hidden", timeout=30000)
Login_Settle ==
    /\ pc = "l_settle"
    /\ \E hidden \in BOOLEAN :
         IF hidden
           THEN /\ lui' = Append(lui, "dialog_hidden")
                /\ LoginReturnsTrue
           ELSE /\ lui' = Append(lui, "dialog_visible")
                /\ pc' = "l_reload"
                /\ UNCHANGED <<pending, trace, loginRet>>
    /\ UNCHANGED <<elapsed, roundtrip>>
    /\ UNCHANGED seen
    /\ LoginFrame

\* Login_Reload going back to the dialog-hidden wait for as long as the dialog
\* is visible
Login_Reload_Retry ==
    /\ pc = "l_reload"
    /\ \E visible \in BOOLEAN :
         IF visible
           THEN /\ pc' = "l_settle"
                /\ lui' = SubSeq(lui, 1, Len(lui) - 1)
                /\ UNCHANGED <<pending, trace, loginRet>>
           ELSE /\ lui' = Append(Append(lui, "reload"), "dialog_hidden")
                /\ LoginReturnsTrue
    /\ UNCHANGED <<elapsed, roundtrip>>
    /\ UNCHANGED seen
    /\ LoginFrame

\* except: page.reload(); time.sleep(2); one more look at the dialog
Login_Reload ==
    /\ pc = "l_reload"
    /\ \E visible \in BOOLEAN :
         IF visible
           THEN /\ lui' = Append(Append(lui, "reload"), "dialog_visible")
                /\ LoginReturnsFalse
           ELSE /\ lui' = Append(Append(lui, "reload"), "dialog_hidden")
                /\ LoginReturnsTrue
    /\ UNCHANGED <<elapsed, roundtrip>>
    /\ UNCHANGED seen
    /\ LoginFrame

\* Login_Raise with the TimeoutError of the dialog wait swallowed: the
\* protocol goes on to the terms toggle
Login_Raise_DialogIgnored ==
    /\ pc \in {"goto", "l_wait_dialog", "l_terms", "l_click", "l_reload"}
    /\ IF pc = "l_wait_dialog"
         THEN /\ lui' = Append(lui, "dialog_not_found")
              /\ pc' = "l_terms"
              /\ UNCHANGED <<loginRet, trace, pending>>
         ELSE /\ loginRet' = "raised"
              /\ trace' = Append(trace, "login_failed")
              /\ pc' = "finally"
              /\ pending' = "exception"
              /\ UNCHANGED lui
    /\ UNCHANGED <<elapsed, roundtrip>>
    /\ UNCHANGED seen
    /\ LoginFrame

\* a Playwright call of login.py that nothing in login.py catches raises:
\* page.goto, wait_for_selector (the dialog does not appear within 10 s),
\* terms_checkbox.click, google_button.click, page.reload.  The exception
\* leaves ensure_logged_in and main's try block.
Login_Raise ==
    /\ pc \in {"goto", "l_wait_dialog", "l_terms", "l_click", "l_reload"}
    /\ loginRet' = "raised"
    /\ trace' = Append(trace, "login_failed")
    /\ pc' = "finally"
    /\ pending' = "exception"
    /\ lui' = IF pc = "l_wait_dialog" THEN Append(lui, "dialog_not_found") ELSE lui
    /\ UNCHANGED <<elapsed, roundtrip>>
    /\ UNCHANGED seen
    /\ LoginFrame

(***************************************************************************)
(* main.py, main: the finally clause of the solve block (lines 103-106).   *)
(***************************************************************************)
\* Main_Finally as a close that follows the block instead of a finally
\* clause: reached only when the block ends normally
Main_Finally_OnSuccessOnly ==
    /\ pc = "finally"
    /\ IF pending = "continue"
         THEN /\ browserOpen' = FALSE
              /\ trace' = Append(trace, "browser_closed")
              /\ pc' = "parse"
              /\ UNCHANGED exit
         ELSE /\ pc' = "done"
              /\ exit' = pending
              /\ UNCHANGED <<browserOpen, trace>>
    /\ pending' = "none"
    /\ UNCHANGED <<args, elapsed, loginRet, lui, roundtrip, seen, settings,
                   timeout_seconds, frame, ui, slider, optimise, checks,
                   completed, solve_results, files, parsed>>
    /\ UNCHANGED <<popup, marker, now, output_dir, results, html_content,
                   parse_out, popup_page, settings_file, mail, parse_log>>

\* finally: context.close(); playwright.stop().  The two calls are one step:
\* nothing of the program runs between them.
Main_Finally ==
    /\ pc = "finally"
    /\ browserOpen' = FALSE
    /\ trace' = Append(trace, "browser_closed")
    /\ IF pending = "continue"
         THEN /\ pc' = "parse"
              /\ UNCHANGED exit
         ELSE /\ pc' = "done"
              /\ exit' = pending
    /\ pending' = "none"
    /\ UNCHANGED <<args, elapsed, loginRet, lui, roundtrip, seen, settings,
                   timeout_seconds, frame, ui, slider, optimise, checks,
                   completed, solve_results, files, parsed>>
    /\ UNCHANGED <<popup, marker, now, output_dir, results, html_content,
                   parse_out, popup_page, settings_file, mail, parse_log>>

(***************************************************************************)
(* settings.py and main.py: the configuration.                             *)
(***************************************************************************)
\* get_default_settings()
get_default_settings ==
    [timeout |-> DefaultTimeout, horizon_weeks |-> DefaultHorizon, ddp |-> Absent]

\* what solver_settings.yaml can hold; NoSettings stands for a missing,
\* unreadable or empty file
FileSettings ==
    [timeout : TimeoutInputs \cup {Absent},
     horizon_weeks : HorizonInputs \cup {Absent},
     ddp : DdpInputs \cup {Absent}]

\* load_solver_settings(): the file's mapping, or the defaults when there
\* is no file, it cannot be read, or it is empty
load_solver_settings(file) ==
    IF file = NoSettings THEN get_default_settings ELSE file

\* Update with the overrides put in whether or not they were given: an
\* override that was not given takes the loaded value away
Update_AlwaysReplaces(s, a) ==
    [timeout |-> s.timeout, horizon_weeks |-> a.horizon, ddp |-> a.ddp]

\* main.py lines 89-93 and settings.update(settings_overrides): an override
\* that was given replaces the loaded value
Update(s, a) ==
    [timeout |-> s.timeout,
     horizon_weeks |-> IF a.horizon # Absent THEN a.horizon ELSE s.horizon_weeks,
     ddp |-> IF a.ddp # Absent THEN a.ddp ELSE s.ddp]

\* dict.get(key, default)
Get(v, default) == IF v = Absent THEN default ELSE v

Max(a, b) == IF a >= b THEN a ELSE b

Min(a, b) == IF a <= b THEN a ELSE b

Abs(x) == IF x < 0 THEN 0 - x ELSE x

\* Clamp with the upper bound forgotten
Clamp_NoUpper(horizon_weeks, min_val, max_val) ==
    Max(min_val, horizon_weeks)

\* target_val = max(min_val, min(horizon_weeks, max_val))
Clamp(horizon_weeks, min_val, max_val) ==
    Max(min_val, Min(horizon_weeks, max_val))

\* Steps counting from 0 instead of from the minimum
Steps_FromZero(target_val, min_val) == target_val

\* steps = target_val - min_val
Steps(target_val, min_val) == target_val - min_val

\* the presets dict, in insertion order; probabilities in thousandths
PresetAnchors == <<0, 250, 500, 750, 1000>>

PresetNames == <<"Clear Skies", "Breezy", "Cloudy", "Foggy", "Storm">>

\* ClosestPreset keeping the last key of least distance instead of the first
ClosestPreset_UpperOnTie(p) ==
    CHOOSE k \in 1..Len(PresetAnchors) :
        /\ \A j \in 1..Len(PresetAnchors) :
               Abs(PresetAnchors[k] - p) <= Abs(PresetAnchors[j] - p)
        /\ \A j \in (k + 1)..Len(PresetAnchors) :
               Abs(PresetAnchors[j] - p) > Abs(PresetAnchors[k] - p)

\* min(presets.keys(), key=lambda x: abs(x - decision_prob)): the first key,
\* in iteration order, of least distance
ClosestPreset(p) ==
    CHOOSE k \in 1..Len(PresetAnchors) :
        /\ \A j \in 1..Len(PresetAnchors) :
               Abs(PresetAnchors[k] - p) <= Abs(PresetAnchors[j] - p)
        /\ \A j \in 1..(k - 1) :
               Abs(PresetAnchors[j] - p) > Abs(PresetAnchors[k] - p)

(***************************************************************************)
(* solve.py, run_solve_on_page: lines 224-242.                             *)
(***************************************************************************)
\* what is left alone by every step of solve.py before the Optimise click
SettingsFrame ==
    UNCHANGED <<args, browserOpen, exit, elapsed, loginRet, optimise, checks,
                completed, solve_results, files, parsed, popup, marker, now,
                output_dir, results, html_content, parse_out, popup_page, mail,
                parse_log>>

\* page.wait_for_load_state("networkidle", timeout=30000) returned.  The
\* authenticator has returned: its observations are no longer held.
RunSolve_Wait ==
    /\ pc = "rsp_wait"
    /\ pc' = "rsp_load"
    /\ lui' = <<>>
    /\ roundtrip' = "none"
    /\ seen' = <<>>
    /\ popup' = {}
    /\ popup_page' = "none"
    /\ elapsed' = 0
    /\ UNCHANGED <<pending, trace, settings, timeout_seconds, frame, ui, slider>>
    /\ UNCHANGED <<args, browserOpen, exit, loginRet, optimise, checks,
                   completed, solve_results, files, parsed, marker, now,
                   output_dir, results, html_content, parse_out, settings_file,
                   mail, parse_log>>

\* settings = load_solver_settings(); settings.update(settings_overrides);
\* apply_solver_settings(page, settings) is entered
RunSolve_Load ==
    /\ pc = "rsp_load"
    /\ \E file \in FileSettings :
         /\ settings_file' = file
         /\ settings' = Update(load_solver_settings(file), args)
    /\ frame' = NoFrame
    /\ ui' = <<>>
    /\ trace' = Append(trace, "settings_begin")
    /\ pc' = "as_start"
    /\ UNCHANGED <<pending, lui, roundtrip, seen, timeout_seconds, slider>>
    /\ SettingsFrame

(***************************************************************************)
(* solve.py, apply_solver_settings: the horizon setting, lines 44-109.     *)
(***************************************************************************)
\* what every step of apply_solver_settings leaves alone.  settings.update
\* has changed the loaded mapping in place: what was loaded is held only
\* until the stage takes its first step.
StageFrame ==
    /\ UNCHANGED <<pending, trace, lui, roundtrip, seen, settings, timeout_seconds>>
    /\ settings_file' = Nothing
    /\ SettingsFrame

\* horizon_button.count() > 0, then horizon_button.click().  A locator that
\* matches several buttons makes click() raise (strict mode).
Horizon_Button ==
    /\ pc = "as_start"
    /\ \E count \in 0..2 :
         /\ frame' = [frame EXCEPT
                        !.horizon_weeks = Get(settings.horizon_weeks, DefaultHorizon),
                        !.horizon_end = CASE count = 0 -> "button_absent"
                                          [] count = 1 -> "none"
                                          [] OTHER -> "raised"]
         /\ CASE count = 0 -> /\ pc' = "d_start"
                              /\ UNCHANGED ui
              [] count = 1 -> /\ pc' = "h_slider"
                              /\ ui' = Append(ui, "click_horizon")
              [] OTHER     -> /\ pc' = "as_except"
                              /\ UNCHANGED ui
    /\ UNCHANGED slider
    /\ StageFrame

\* slider.count() > 0; when there is none: print, press Escape
Horizon_FindSlider ==
    /\ pc = "h_slider"
    /\ \E found \in BOOLEAN :
         IF found
           THEN /\ pc' = "h_read"
                /\ UNCHANGED <<ui, frame>>
           ELSE /\ pc' = "d_start"
                /\ ui' = Append(ui, "Escape")
                /\ frame' = [frame EXCEPT !.horizon_end = "slider_absent"]
    /\ UNCHANGED slider
    /\ StageFrame

\* the slider's attributes as the page holds them when they are read
SliderStates ==
    {sl \in [max : (SliderMin..MaxSliderMax) \cup {Absent},
             now : (SliderMin..MaxSliderMax) \cup {Absent}] :
        sl.max # Absent /\ sl.now # Absent => sl.now <= sl.max}

\* Horizon_Read without the test of line 74: the slider is always driven
Horizon_Read_AlwaysStep ==
    /\ pc = "h_read"
    /\ \E sl \in SliderStates :
         LET min_val == SliderMin
             max_val == Get(sl.max, DefaultSliderMax)
             current_val == Get(sl.now, DefaultSliderNow)
             target_val == Clamp(frame.horizon_weeks, min_val, max_val)
         IN  /\ slider' = sl
             /\ pc' = "h_focus"
             /\ frame' = [frame EXCEPT !.min_val = min_val,
                            !.max_val = max_val,
                            !.current_val = current_val,
                            !.target_val = target_val]
    /\ UNCHANGED ui
    /\ StageFrame

\* lines 67-74 and 98-100: read the bounds and the value, clamp, compare
Horizon_Read ==
    /\ pc = "h_read"
    /\ \E sl \in SliderStates :
         LET min_val == SliderMin
             max_val == Get(sl.max, DefaultSliderMax)
             current_val == Get(sl.now, DefaultSliderNow)
             target_val == Clamp(frame.horizon_weeks, min_val, max_val)
         IN  /\ slider' = sl
             /\ IF current_val # target_val
                  THEN /\ pc' = "h_focus"
                       /\ frame' = [frame EXCEPT !.min_val = min_val,
                                      !.max_val = max_val,
                                      !.current_val = current_val,
                                      !.target_val = target_val]
                  ELSE /\ pc' = "h_escape"
                       /\ frame' = [frame EXCEPT !.min_val = min_val,
                                      !.max_val = max_val,
                                      !.current_val = current_val,
                                      !.target_val = target_val,
                                      !.horizon_end = "equal",
                                      !.horizon_success = TRUE]
    /\ UNCHANGED ui
    /\ StageFrame

\* slider.focus()
Horizon_Focus ==
    /\ pc = "h_focus"
    /\ ui' = Append(ui, "focus")
    /\ pc' = "h_home"
    /\ UNCHANGED <<frame, slider>>
    /\ StageFrame

\* the value the slider shows after a keystroke that asks for `to`: the
\* control follows it or does not react
AfterKey(sl, to) == {[sl EXCEPT !.now = to], sl}

\* page.keyboard.press("Home"); steps = target_val - min_val
Horizon_Home ==
    /\ pc = "h_home"
    /\ ui' = Append(ui, "Home")
    /\ slider' \in AfterKey(slider, frame.min_val)
    /\ frame' = [frame EXCEPT !.steps = Steps(frame.target_val, frame.min_val),
                              !.i = 0]
    /\ pc' = "h_step"
    /\ StageFrame

\* for _ in range(steps): page.keyboard.press("ArrowRight")
Horizon_Step ==
    /\ pc = "h_step"
    /\ IF frame.i < frame.steps
         THEN /\ ui' = Append(ui, "ArrowRight")
              /\ slider' \in AfterKey(slider,
                     IF slider.now = Absent THEN Absent
                     ELSE Min(slider.now + 1, Get(slider.max, DefaultSliderMax)))
              /\ frame' = [frame EXCEPT !.i = frame.i + 1]
              /\ pc' = "h_step"
         ELSE /\ pc' = "h_verify"
              /\ UNCHANGED <<ui, slider, frame>>
    /\ StageFrame

\* new_val = int(slider.get_attribute("aria-valuenow") or str(current_val));
\* horizon_success = (new_val == target_val)
Horizon_Verify ==
    /\ pc = "h_verify"
    /\ LET new_val == Get(slider.now, frame.current_val)
       IN  frame' = [frame EXCEPT !.new_val = new_val,
                                  !.horizon_end = "stepped",
                                  !.horizon_success = (new_val = frame.target_val)]
    /\ pc' = "h_escape"
    /\ UNCHANGED <<ui, slider>>
    /\ StageFrame

\* lines 102-104: page.keyboard.press("Escape")
Horizon_Escape ==
    /\ pc = "h_escape"
    /\ ui' = Append(ui, "Escape")
    /\ pc' = "d_start"
    /\ UNCHANGED <<frame, slider>>
    /\ StageFrame

\* a call between the horizon click and the closing Escape raises: int() of
\* an attribute that is no integer, focus(), keyboard.press() or
\* get_attribute() on a page that went away.  The except clause of line 175
\* takes over.
Horizon_Raise ==
    /\ pc \in {"h_read", "h_focus", "h_home", "h_step", "h_verify", "h_escape"}
    /\ pc' = "as_except"
    /\ frame' = [frame EXCEPT !.horizon_end = "raised"]
    /\ UNCHANGED <<ui, slider>>
    /\ StageFrame

(***************************************************************************)
(* solve.py, apply_solver_settings: the decision disruption probability,   *)
(* lines 111-170.                                                          *)
(***************************************************************************)
\* the locals the horizon block leaves behind: only horizon_success is read
\* again (line 173); how the block ended is kept with it
AfterHorizon(f) ==
    [NoFrame EXCEPT !.horizon_success = f.horizon_success,
                    !.horizon_weeks = f.horizon_weeks,
                    !.horizon_end = f.horizon_end]

\* settings_wheel.count() > 0, then settings_wheel.click().  The horizon
\* block is over: ui starts again for the disruption setting, and the modal's
\* slider is not looked at again.
Ddp_Wheel ==
    /\ pc = "d_start"
    /\ \E found \in BOOLEAN :
         IF found
           THEN /\ pc' = "d_settings"
                /\ ui' = <<"click_wheel">>
                /\ frame' = [AfterHorizon(frame) EXCEPT
                               !.decision_end = "wheel_clicked"]
           ELSE /\ pc' = "as_return"
                /\ ui' = <<>>
                /\ frame' = [AfterHorizon(frame) EXCEPT
                               !.decision_end = "wheel_absent"]
    /\ slider' = NoSlider
    /\ StageFrame

\* settings_button.is_visible(), then click; else Escape
Ddp_Settings ==
    /\ pc = "d_settings"
    /\ \E visible \in BOOLEAN :
         IF visible
           THEN /\ pc' = "d_tab"
                /\ ui' = Append(ui, "click_settings")
                /\ UNCHANGED frame
           ELSE /\ pc' = "as_return"
                /\ ui' = Append(ui, "Escape")
                /\ frame' = [frame EXCEPT !.decision_end = "settings_absent"]
    /\ UNCHANGED slider
    /\ StageFrame

\* Ddp_Tab with the tab clicked without the count() test and outside the try
\* block: a missing tab raises out of apply_solver_settings
Ddp_Tab_AbsentRaises ==
    /\ pc = "d_tab"
    /\ \E found \in BOOLEAN :
         IF found
           THEN /\ pc' = "d_preset"
                /\ ui' = Append(ui, "click_tab")
                /\ UNCHANGED <<frame, pending, trace>>
           ELSE /\ pc' = "finally"
                /\ pending' = "exception"
                /\ trace' = Append(trace, "solve_raised")
                /\ frame' = [frame EXCEPT !.decision_end = "tab_absent"]
                /\ UNCHANGED ui
    /\ UNCHANGED slider
    /\ UNCHANGED <<lui, roundtrip, seen, settings, timeout_seconds>>
    /\ settings_file' = Nothing
    /\ SettingsFrame

\* optimisation_tab.count() > 0, then click; else Escape
Ddp_Tab ==
    /\ pc = "d_tab"
    /\ \E found \in BOOLEAN :
         IF found
           THEN /\ pc' = "d_preset"
                /\ ui' = Append(ui, "click_tab")
                /\ UNCHANGED frame
           ELSE /\ pc' = "as_return"
                /\ ui' = Append(ui, "Escape")
                /\ frame' = [frame EXCEPT !.decision_end = "tab_absent"]
    /\ UNCHANGED slider
    /\ StageFrame

\* Ddp_Preset with decision_success set outside the count() test
Ddp_Preset_AlwaysApplied ==
    /\ pc = "d_preset"
    /\ LET decision_prob == Get(settings.ddp, DefaultDdp)
           preset_name == PresetNames[ClosestPreset(decision_prob)]
       IN  \E found \in BOOLEAN :
             /\ ui' = IF found THEN Append(ui, "click_preset") ELSE ui
             /\ frame' = [frame EXCEPT
                            !.preset = preset_name,
                            !.decision_end = IF found THEN "clicked"
                                             ELSE "preset_absent",
                            !.decision_success = TRUE]
    /\ pc' = "d_escape"
    /\ UNCHANGED slider
    /\ StageFrame

\* Ddp_Preset taking probability 0 when the configuration has none
Ddp_Preset_DefaultZero ==
    /\ pc = "d_preset"
    /\ LET decision_prob == Get(settings.ddp, 0)
           preset_name == PresetNames[ClosestPreset(decision_prob)]
       IN  \E found \in BOOLEAN :
             IF found
               THEN /\ ui' = Append(ui, "click_preset")
                    /\ frame' = [frame EXCEPT !.preset = preset_name,
                                              !.decision_end = "clicked",
                                              !.decision_success = TRUE]
               ELSE /\ UNCHANGED ui
                    /\ frame' = [frame EXCEPT !.preset = preset_name,
                                              !.decision_end = "preset_absent"]
    /\ pc' = "d_escape"
    /\ UNCHANGED slider
    /\ StageFrame

\* lines 136-158: choose the preset, click its button when it is there
Ddp_Preset ==
    /\ pc = "d_preset"
    /\ LET decision_prob == Get(settings.ddp, DefaultDdp)
           preset_name == PresetNames[ClosestPreset(decision_prob)]
       IN  \E found \in BOOLEAN :
             IF found
               THEN /\ ui' = Append(ui, "click_preset")
                    /\ frame' = [frame EXCEPT !.preset = preset_name,
                                              !.decision_end = "clicked",
                                              !.decision_success = TRUE]
               ELSE /\ UNCHANGED ui
                    /\ frame' = [frame EXCEPT !.preset = preset_name,
                                              !.decision_end = "preset_absent"]
    /\ pc' = "d_escape"
    /\ UNCHANGED slider
    /\ StageFrame

\* lines 160-162: page.keyboard.press("Escape")
Ddp_Escape ==
    /\ pc = "d_escape"
    /\ ui' = Append(ui, "Escape")
    /\ pc' = "as_return"
    /\ UNCHANGED <<frame, slider>>
    /\ StageFrame

\* a click, is_visible() or keyboard.press() of the disruption part raises
Ddp_Raise ==
    /\ pc \in {"d_start", "d_settings", "d_tab", "d_preset", "d_escape"}
    /\ pc' = "as_except"
    /\ frame' = [(IF pc = "d_start" THEN AfterHorizon(frame) ELSE frame)
                    EXCEPT !.decision_end = "raised"]
    /\ ui' = IF pc = "d_start" THEN <<>> ELSE ui
    /\ slider' = IF pc = "d_start" THEN NoSlider ELSE slider
    /\ StageFrame

\* line 173: return horizon_success or decision_success
Apply_Return ==
    /\ pc = "as_return"
    /\ frame' = [frame EXCEPT
                   !.ret = IF frame.horizon_success \/ frame.decision_success
                             THEN "True" ELSE "False"]
    /\ trace' = Append(trace, "settings_end")
    /\ pc' = "rsp_timeout"
    /\ UNCHANGED <<pending, lui, roundtrip, seen, settings, timeout_seconds, ui, slider>>
    /\ settings_file' = Nothing
    /\ SettingsFrame

\* Apply_Except running the settings stage again after an error
Apply_Except_Retry ==
    /\ pc = "as_except"
    /\ pc' = "as_start"
    /\ UNCHANGED <<frame, trace>>
    /\ UNCHANGED <<pending, lui, roundtrip, seen, settings, timeout_seconds, ui, slider>>
    /\ settings_file' = Nothing
    /\ SettingsFrame

\* lines 175-179: except Exception: ... return False
Apply_Except ==
    /\ pc = "as_except"
    /\ frame' = [frame EXCEPT !.ret = "False"]
    /\ trace' = Append(trace, "settings_end")
    /\ pc' = "rsp_timeout"
    /\ UNCHANGED <<pending, lui, roundtrip, seen, settings, timeout_seconds, ui, slider>>
    /\ settings_file' = Nothing
    /\ SettingsFrame

\* line 242: timeout_seconds = settings.get("timeout", timeout_seconds).
\* apply_solver_settings has returned and its result is dropped.
RunSolve_Timeout ==
    /\ pc = "rsp_timeout"
    /\ timeout_seconds' = Get(settings.timeout, timeout_seconds)
    /\ settings' = NoSettings
    /\ settings_file' = Nothing
    /\ frame' = NoFrame
    /\ ui' = <<>>
    /\ slider' = NoSlider
    /\ pc' = "opt"
    /\ UNCHANGED <<pending, trace, lui, roundtrip, seen>>
    /\ SettingsFrame

SettingsNext ==
    \/ RunSolve_Wait
    \/ RunSolve_Load
    \/ Horizon_Button
    \/ Horizon_FindSlider
    \/ Horizon_Read
    \/ Horizon_Focus
    \/ Horizon_Home
    \/ Horizon_Step
    \/ Horizon_Verify
    \/ Horizon_Escape
    \/ Horizon_Raise
    \/ Ddp_Wheel
    \/ Ddp_Settings
    \/ Ddp_Tab
    \/ Ddp_Preset
    \/ Ddp_Escape
    \/ Ddp_Raise
    \/ Apply_Return
    \/ Apply_Except
    \/ RunSolve_Timeout

(***************************************************************************)
(* solve.py, click_optimise_button (lines 16-28) as run_solve_on_page      *)
(* calls it (lines 244-247).                                               *)
(***************************************************************************)
\* what is left alone by every step of solve.py from the Optimise click on
FetchFrame ==
    UNCHANGED <<args, browserOpen, exit, loginRet, lui, roundtrip, seen, settings,
                timeout_seconds, frame, ui, slider, parsed, popup, now,
                html_content, parse_out, popup_page, settings_file, mail,
                parse_log>>

\* the same for the steps that neither check for completion nor capture
SolveFrame ==
    /\ FetchFrame
    /\ UNCHANGED <<marker, output_dir, results>>

\* SolveReturnsNone with the result of click_optimise_button not looked at
SolveReturnsNone_GoesOn ==
    /\ pc' = "poll"
    /\ UNCHANGED <<solve_results, pending>>

\* run_solve_on_page returns None; main prints the error and returns 1
\* (main.py lines 97-99)
SolveReturnsNone ==
    /\ solve_results' = "None"
    /\ pending' = "1"
    /\ pc' = "finally"

\* ClickOptimise going straight to fetch_results after the click
ClickOptimise_NoWait ==
    /\ pc = "opt"
    /\ \E button \in {"hidden", "ready"} :
         /\ optimise' = button
         /\ IF button = "hidden"
              THEN /\ SolveReturnsNone
                   /\ trace' = Append(trace, "trigger_not_found")
              ELSE /\ trace' = Append(trace, "optimise_click")
                   /\ pc' = "fetch_idle"
                   /\ UNCHANGED <<solve_results, pending>>
    /\ UNCHANGED <<checks, completed, files, elapsed>>
    /\ SolveFrame

\* optimise_button.is_visible(), then optimise_button.click().  click() on a
\* visible button that stays disabled raises after its timeout.
ClickOptimise ==
    /\ pc = "opt"
    /\ \E button \in {"hidden", "disabled", "ready"} :
         /\ optimise' = button
         /\ CASE button = "hidden" ->
                   /\ SolveReturnsNone
                   /\ trace' = Append(trace, "trigger_not_found")
                   /\ UNCHANGED elapsed
              [] button = "disabled" ->
                   /\ pending' = "exception"
                   /\ pc' = "finally"
                   /\ trace' = Append(trace, "trigger_not_found")
                   /\ UNCHANGED <<solve_results, elapsed>>
              [] OTHER ->
                   /\ trace' = Append(trace, "optimise_click")
                   /\ pc' = "poll"
                   /\ elapsed' = 0
                   /\ UNCHANGED <<solve_results, pending>>
    /\ UNCHANGED <<checks, completed, files>>
    /\ SolveFrame

(***************************************************************************)
(* solve.py, wait_for_solve_completion: lines 182-203.                     *)
(***************************************************************************)
\* while time.time() - start_time < timeout_seconds
PollGuard(e, t) == e < t

\* Wait_Poll returning True when the time has run out
Wait_Poll_TrueOnTimeout ==
    /\ pc = "poll"
    /\ IF PollGuard(elapsed, timeout_seconds)
         THEN /\ checks' = checks + 1
              /\ \E visible \in BOOLEAN, d \in Overruns :
                   IF visible
                     THEN /\ marker' = "visible"
                          /\ completed' = "True"
                          /\ trace' = Append(trace, "poll_end")
                          /\ pc' = "fetch_idle"
                          /\ elapsed' = 0
                     ELSE /\ marker' = "hidden"
                          /\ elapsed' = elapsed + PollInterval + d
                          /\ pc' = "poll"
                          /\ UNCHANGED <<completed, trace>>
         ELSE /\ completed' = "True"
              /\ trace' = Append(trace, "poll_end")
              /\ pc' = "fetch_idle"
              /\ elapsed' = 0
              /\ UNCHANGED <<checks, marker>>
    /\ UNCHANGED <<pending, optimise, solve_results, files>>
    /\ UNCHANGED <<output_dir, results>>
    /\ FetchFrame

\* one evaluation of the loop condition and, when it holds, one iteration:
\* a completion check, then either return True or time.sleep(5)
Wait_Poll ==
    /\ pc = "poll"
    /\ IF PollGuard(elapsed, timeout_seconds)
         THEN /\ checks' = checks + 1
              /\ \E visible \in BOOLEAN, d \in Overruns :
                   IF visible
                     THEN /\ marker' = "visible"
                          /\ completed' = "True"
                          /\ trace' = Append(trace, "poll_end")
                          /\ pc' = "fetch_idle"
                          /\ elapsed' = 0
                     ELSE /\ marker' = "hidden"
                          /\ elapsed' = elapsed + PollInterval + d
                          /\ pc' = "poll"
                          /\ UNCHANGED <<completed, trace>>
         ELSE /\ completed' = "False"
              /\ trace' = Append(trace, "poll_end")
              /\ pc' = "fetch_idle"
              /\ elapsed' = 0
              /\ UNCHANGED <<checks, marker>>
    /\ UNCHANGED <<pending, optimise, solve_results, files>>
    /\ UNCHANGED <<output_dir, results>>
    /\ FetchFrame

(***************************************************************************)
(* solve.py, fetch_results: lines 259-306.                                 *)
(***************************************************************************)
\* page.wait_for_load_state("networkidle", timeout=10000) returned
Fetch_Idle ==
    /\ pc = "fetch_idle"
    /\ pc' = "fetch_content"
    /\ UNCHANGED <<pending, trace, elapsed, optimise, checks, completed,
                   solve_results, files>>
    /\ SolveFrame

\* results["html"] = page.content()
Fetch_Content ==
    /\ pc = "fetch_content"
    /\ \E page \in PageMarkups :
         results' = [timestamp |-> now, transfers |-> <<>>, html |-> page]
    /\ trace' = Append(trace, "capture")
    /\ pc' = "fetch_write"
    /\ UNCHANGED <<pending, elapsed, optimise, checks, completed,
                   solve_results, files>>
    /\ UNCHANGED <<marker, output_dir>>
    /\ FetchFrame

\* output_file.write_text(results["html"]); results["output_file"] = ...;
\* return results.  main keeps results_file and leaves the try block.
Fetch_Write ==
    /\ pc = "fetch_write"
    /\ output_dir' = WriteText(output_dir, FileName(now), results.html)
    /\ results' = [timestamp |-> results.timestamp, transfers |-> results.transfers,
                   html |-> results.html, output_file |-> FileName(now)]
    /\ files' = files + 1
    /\ trace' = Append(trace, "written")
    /\ solve_results' = "results"
    /\ pending' = "continue"
    /\ pc' = "finally"
    /\ UNCHANGED <<elapsed, optimise, checks, completed>>
    /\ UNCHANGED marker
    /\ FetchFrame

\* line 273: the page does not reach network-idle within 10 s and
\* wait_for_load_state raises TimeoutError; nothing in fetch_results,
\* run_solve_on_page or main catches it
Fetch_IdleTimeout ==
    /\ pc = "fetch_idle"
    /\ pending' = "exception"
    /\ pc' = "finally"
    /\ trace' = Append(trace, "solve_raised")
    /\ UNCHANGED <<elapsed, optimise, checks, completed, solve_results, files>>
    /\ SolveFrame

\* another Playwright or file call of solve.py outside apply_solver_settings
\* raises (line 225: no network-idle within 30 s; the page is gone; the file
\* cannot be written); nothing in run_solve_on_page or main catches it
Solve_Raise ==
    /\ pc \in {"rsp_wait", "fetch_content", "fetch_write"}
    /\ pending' = "exception"
    /\ pc' = "finally"
    /\ trace' = Append(trace, "solve_raised")
    /\ UNCHANGED <<elapsed, optimise, checks, completed, solve_results, files>>
    /\ SolveFrame

(***************************************************************************)
(* main.py, main: parse, display and e-mail (lines 108-148).               *)
(***************************************************************************)
ParseFrame ==
    UNCHANGED <<args, browserOpen, pending, elapsed, loginRet, lui, roundtrip,
                seen, settings, timeout_seconds, frame, ui, slider, optimise,
                checks, completed, solve_results, files, popup, marker, now,
                output_dir, results, popup_page, settings_file>>

MainFrame ==
    /\ ParseFrame
    /\ UNCHANGED <<html_content, parse_out, parse_log>>

\* parse_results_file(results_file), or of the most recent results file when
\* the solve was skipped (which file of several is the most recent is not
\* known here); return 1 when there is none.  An exception of the parser is
\* caught nowhere and ends the process.
Main_Parse ==
    /\ pc = "parse"
    /\ IF solve_results = "results" \/ DOMAIN output_dir # {}
         THEN \E name \in IF solve_results = "results"
                             THEN {results.output_file}
                             ELSE DOMAIN output_dir :
                LET out == parse_results_html(output_dir[name])
                IN  /\ html_content' = output_dir[name]
                    /\ parse_log' = Append(parse_log, [html |-> output_dir[name],
                                                       out |-> out])
                    /\ IF "raised" \in DOMAIN out
                         THEN /\ exit' = "exception"
                              /\ pc' = "done"
                              /\ UNCHANGED <<parsed, trace, parse_out>>
                         ELSE /\ parse_out' = out
                              /\ parsed' = TRUE
                              /\ trace' = Append(trace, "parse")
                              /\ pc' = "email"
                              /\ UNCHANGED exit
         ELSE /\ exit' = "1"
              /\ pc' = "done"
              /\ UNCHANGED <<parsed, trace, html_content, parse_out, parse_log>>
    /\ UNCHANGED mail
    /\ ParseFrame

\* send_results_email(results) unless --no-email.  The mail environment is
\* unconfigured (EMAIL_ADDRESS or EMAIL_PASSWORD missing), or configured with
\* a mail service that refuses or that accepts a message.  Unconfigured,
\* get_email_config raises ValueError (line 91) and main returns 1.
\* Configured, send_results_email calls load_solver_settings(verbose=False)
\* (line 105), a parameter that function does not have: TypeError, before
\* anything is sent, and main's except Exception returns 1.
Main_Email ==
    /\ pc = "email"
    /\ IF args.no_email
         THEN /\ exit' = "0"
              /\ UNCHANGED mail
         ELSE /\ mail' \in {"unconfigured", "refusing", "accepting"}
              /\ exit' = "1"
    /\ pc' = "done"
    /\ UNCHANGED <<parsed, trace>>
    /\ MainFrame

SolveNext ==
    \/ ClickOptimise
    \/ Wait_Poll
    \/ Fetch_Idle
    \/ Fetch_IdleTimeout
    \/ Fetch_Content
    \/ Fetch_Write
    \/ Solve_Raise

LoginNext ==
    \/ EnsureLoggedIn_Goto
    \/ IsLoggedIn_Wait
    \/ IsLoggedIn_First
    \/ IsLoggedIn_Recheck
    \/ Login_WaitDialog
    \/ Login_Terms
    \/ Login_PollButton
    \/ Login_Click
    \/ Login_Redirect
    \/ Login_PollPopup
    \/ Login_Settle
    \/ Login_Reload
    \/ Login_Raise

Next ==
    \/ Main_Start
    \/ LoginNext
    \/ SettingsNext
    \/ SolveNext
    \/ Main_Finally
    \/ Main_Parse
    \/ Main_Email

Spec == Init /\ [][Next]_vars

\* The pipeline is one thread of control that always takes its next step:
\* every page operation returns or times out, and the clock advances.
LiveSpec == Spec /\ WF_vars(Next)

(***************************************************************************)
(* The preset choice on its own (solve.py lines 135-162): the settings     *)
(* stage stands before the preset lookup, the horizon button was absent,   *)
(* the wheel, the Settings button and the tab were there, and the          *)
(* configuration holds any probability of [0, 1].                          *)
(***************************************************************************)
\* decision_disruption_probability over the whole range, in thousandths
ProbInputs == PresetAnchors[1]..PresetAnchors[Len(PresetAnchors)]

PresetInit ==
    /\ pc = "d_preset"
    /\ args = [no_solve |-> FALSE, no_email |-> FALSE, horizon |-> Absent,
               ddp |-> Absent]
    /\ browserOpen = TRUE
    /\ pending = "none"
    /\ exit = "running"
    /\ trace = <<"login_ok", "settings_begin">>
    /\ elapsed = 0
    /\ loginRet = "true"
    /\ lui = <<>>
    /\ roundtrip = "none"
    /\ seen = <<>>
    /\ \E p \in ProbInputs \cup {Absent} :
         settings = [timeout |-> Absent, horizon_weeks |-> Absent, ddp |-> p]
    /\ timeout_seconds = DefaultTimeout
    /\ frame = [NoFrame EXCEPT !.horizon_weeks = DefaultHorizon,
                               !.horizon_end = "button_absent",
                               !.decision_end = "wheel_clicked"]
    /\ ui = <<"click_wheel", "click_settings", "click_tab">>
    /\ slider = NoSlider
    /\ optimise = "none"
    /\ checks = 0
    /\ completed = "none"
    /\ solve_results = "none"
    /\ files = 0
    /\ parsed = FALSE
    /\ popup = {}
    /\ marker = "none"
    /\ now = 0
    /\ output_dir = EmptyDir
    /\ results = Nothing
    /\ html_content = Nothing
    /\ parse_out = Nothing
    /\ popup_page = "none"
    /\ settings_file = Nothing
    /\ mail = "none"
    /\ parse_log = <<>>

PresetNext ==
    \/ Ddp_Preset
    \/ Ddp_Escape
    \/ Apply_Return

PresetSpec == PresetInit /\ [][PresetNext]_vars

(***************************************************************************)
(* The parser on its own: main.py --no-solve with one results file in      *)
(* OUTPUT_DIR, the file holding any of Documents.  The state is the one    *)
(* Main_Start leaves when the solve is skipped.                            *)
(***************************************************************************)
ParserInit ==
    /\ pc = "parse"
    /\ args = [no_solve |-> TRUE, no_email |-> TRUE, horizon |-> Absent,
               ddp |-> Absent]
    /\ browserOpen = FALSE
    /\ pending = "none"
    /\ exit = "running"
    /\ trace = <<>>
    /\ elapsed = 0
    /\ loginRet = "none"
    /\ lui = <<>>
    /\ roundtrip = "none"
    /\ seen = <<>>
    /\ settings = NoSettings
    /\ timeout_seconds = DefaultTimeout
    /\ frame = NoFrame
    /\ ui = <<>>
    /\ slider = NoSlider
    /\ optimise = "none"
    /\ checks = 0
    /\ completed = "none"
    /\ solve_results = "none"
    /\ files = 0
    /\ parsed = FALSE
    /\ popup = {}
    /\ marker = "none"
    /\ now = 0
    /\ output_dir \in {WriteText(EmptyDir, FileName(0), d) : d \in Documents}
    /\ results = Nothing
    /\ html_content = Nothing
    /\ parse_out = Nothing
    /\ popup_page = "none"
    /\ settings_file = Nothing
    /\ mail = "none"
    /\ parse_log = <<>>

ParserNext == Main_Parse

ParserSpec == ParserInit /\ [][ParserNext]_vars

(***************************************************************************)
(* parser.py, parse_results_file called again and again by one process on  *)
(* the files of a directory.                                               *)
(***************************************************************************)
\* the files of the directory: no result, one plan, three plans out of
\* order, two plans without digits, an evaluation region that cannot be
\* read over a region without the gameweek element
ReparseFiles ==
    <<Markup(NoEval, <<>>),
      Markup(FullEval, <<Node(TRUE, <<"G", "W", "3">>, OneForTwo, AllFields)>>),
      Markup(FullEval, <<Node(TRUE, <<"W", "k", "3">>, OneForTwo, AllFields),
                         Node(TRUE, <<"G", "W", "3">>, NoXfer, AllFields),
                         Node(TRUE, <<"G", "W", "1">>, OneForTwo, NoFields)>>),
      Markup(FullEval, <<Node(TRUE, <<"G", "W">>, NoXfer, NoFields),
                         Node(TRUE, <<"G", "W">>, OneForTwo, AllFields)>>),
      Markup([FullEval EXCEPT !.pts_text = <<"6", ".", "5", "p">>],
             <<Node(FALSE, <<>>, OneForTwo, AllFields)>>)>>

ReparseInit ==
    /\ pc = "parse"
    /\ args = [no_solve |-> TRUE, no_email |-> TRUE, horizon |-> Absent,
               ddp |-> Absent]
    /\ browserOpen = FALSE
    /\ pending = "none"
    /\ exit = "running"
    /\ trace = <<>>
    /\ elapsed = 0
    /\ loginRet = "none"
    /\ lui = <<>>
    /\ roundtrip = "none"
    /\ seen = <<>>
    /\ settings = NoSettings
    /\ timeout_seconds = DefaultTimeout
    /\ frame = NoFrame
    /\ ui = <<>>
    /\ slider = NoSlider
    /\ optimise = "none"
    /\ checks = 0
    /\ completed = "none"
    /\ solve_results = "none"
    /\ files = 0
    /\ parsed = FALSE
    /\ popup = {}
    /\ marker = "none"
    /\ now = 0
    /\ output_dir = [name \in 1..Len(ReparseFiles) |-> ReparseFiles[name]]
    /\ results = Nothing
    /\ html_content = Nothing
    /\ parse_out = Nothing
    /\ popup_page = "none"
    /\ settings_file = Nothing
    /\ mail = "none"
    /\ parse_log = <<>>

\* parse_results_file(file_path): read the file, parse_results_html of its
\* text; the value goes to the caller
Parse_File ==
    /\ pc = "parse"
    /\ Len(parse_log) < MaxParses
    /\ \E name \in DOMAIN output_dir :
         LET out == parse_results_html(output_dir[name])
         IN  /\ html_content' = output_dir[name]
             /\ parse_log' = Append(parse_log, [html |-> output_dir[name],
                                                out |-> out])
             /\ IF "raised" \in DOMAIN out
                  THEN UNCHANGED <<parsed, parse_out>>
                  ELSE /\ parse_out' = out
                       /\ parsed' = TRUE
    /\ UNCHANGED <<pc, exit, trace, mail>>
    /\ ParseFrame

ReparseNext == Parse_File

ReparseSpec == ReparseInit /\ [][ReparseNext]_vars

(***************************************************************************)
(* OUTPUT_DIR over several runs.  A run is taken up where fetch_results    *)
(* is about to capture the page (solve.py line 277); OUTPUT_DIR outlives   *)
(* the process, everything else starts afresh with the next run.           *)
(***************************************************************************)
ArchiveInit ==
    /\ pc = "fetch_content"
    /\ args = [no_solve |-> FALSE, no_email |-> FALSE, horizon |-> Absent,
               ddp |-> Absent]
    /\ browserOpen = TRUE
    /\ pending = "none"
    /\ exit = "running"
    /\ trace = <<"login_ok", "settings_begin", "settings_end", "optimise_click",
                 "poll_end">>
    /\ elapsed = 0
    /\ loginRet = "true"
    /\ lui = <<>>
    /\ roundtrip = "none"
    /\ seen = <<>>
    /\ settings = NoSettings
    /\ timeout_seconds = DefaultTimeout
    /\ frame = NoFrame
    /\ ui = <<>>
    /\ slider = NoSlider
    /\ optimise = "ready"
    /\ checks = 1
    /\ completed \in {"True", "False"}
    /\ solve_results = "none"
    /\ files = 0
    /\ parsed = FALSE
    /\ popup = {}
    /\ marker \in {"visible", "hidden"}
    /\ (completed = "True") <=> (marker = "visible")
    /\ now \in 0..MaxTick
    /\ output_dir = EmptyDir
    /\ results = Nothing
    /\ html_content = Nothing
    /\ parse_out = Nothing
    /\ popup_page = "none"
    /\ settings_file = Nothing
    /\ mail = "none"
    /\ parse_log = <<>>

\* the program is started again after a run that wrote its snapshot; the
\* new run is taken up at line 277.  datetime.now() is the naive local wall
\* clock: it is not monotonic (clock adjustment, end of daylight saving
\* time), so the new run reads any tick.
Archive_NextRun ==
    /\ pc = "finally"
    /\ solve_results = "results"
    /\ pc' = "fetch_content"
    /\ now' \in 0..MaxTick
    /\ trace' = <<"login_ok", "settings_begin", "settings_end", "optimise_click",
                  "poll_end">>
    /\ pending' = "none"
    /\ solve_results' = "none"
    /\ files' = 0
    /\ results' = Nothing
    /\ UNCHANGED <<output_dir, args, browserOpen, exit, elapsed, loginRet, lui,
                   roundtrip, seen, settings, timeout_seconds, frame, ui, slider,
                   optimise, checks, completed, parsed, popup, marker,
                   html_content, parse_out, popup_page, settings_file, mail,
                   parse_log>>

ArchiveNext ==
    \/ Fetch_Content
    \/ Fetch_Write
    \/ Archive_NextRun

ArchiveSpec == ArchiveInit /\ [][ArchiveNext]_vars

(***************************************************************************)
(* Properties.                                                             *)
(***************************************************************************)
\* every occurrence of a in the trace comes before every occurrence of b,
\* and b does not occur without a
Before(a, b) ==
    Has(trace, b) => Has(trace, a) /\ Last(trace, a) < First(trace, b)

HorizonPcs ==
    {"h_slider", "h_read", "h_focus", "h_home", "h_step", "h_verify", "h_escape"}

DdpPcs == {"d_settings", "d_tab", "d_preset", "d_escape"}

StageOrder ==
    /\ Before("login_ok", "settings_begin")
    /\ Before("settings_begin", "settings_end")
    /\ Before("settings_end", "optimise_click")
    /\ Before("optimise_click", "poll_end")
    /\ Before("poll_end", "capture")
    /\ Before("capture", "written")
    /\ ~args.no_solve => Before("written", "parse")
    /\ checks > 0 => Has(trace, "optimise_click")
    /\ pc \in HorizonPcs \cup DdpPcs =>
           Has(trace, "login_ok") /\ ~Has(trace, "optimise_click")
    /\ pc \in DdpPcs => frame.horizon_end # "none"
    /\ pc \in HorizonPcs => ~Has(ui, "click_wheel")

\* C1: in every run of main the stages happen in order: the login has
\* succeeded before any settings control is touched; the settings stage
\* (horizon block, then disruption block) has returned before Optimise is
\* clicked; the click comes before the first completion check; the markup is
\* captured only after the poll loop has ended; the snapshot is written after
\* the capture and parsed only after it was written.
C1_StagesInOrder ==
    /\ []StageOrder
    /\ [][/\ (ui' # ui /\ ui' # <<>>) =>
              /\ Has(trace, "login_ok")
              /\ Has(trace, "settings_begin")
              /\ ~Has(trace, "settings_end")
              /\ ~Has(trace, "optimise_click")
          /\ checks' # checks =>
              Has(trace, "optimise_click") /\ ~Has(trace, "poll_end")
          /\ Has(trace', "capture") /\ ~Has(trace, "capture") =>
              Has(trace, "poll_end")
          /\ parsed' /\ ~parsed /\ ~args.no_solve =>
              Has(trace, "written")]_vars

C1_Witness ==
    /\ pc = "done"
    /\ ~args.no_solve
    /\ trace = <<"login_ok", "settings_begin", "settings_end", "optimise_click",
                 "poll_end", "capture", "written", "browser_closed", "parse">>
    /\ checks > 1

\* C2: when ensure_logged_in does not return success (it returns False or
\* raises), the run is aborted: no settings control is touched, Optimise is
\* never clicked, no snapshot is captured or written, nothing is parsed, and
\* the run ends with a failure indication.
C2_LoginFailureAborts ==
    loginRet \in {"false", "raised"} =>
        /\ pc \in {"finally", "done"}
        /\ ui = <<>>
        /\ ~Has(trace, "settings_begin")
        /\ optimise = "none"
        /\ ~Has(trace, "optimise_click")
        /\ checks = 0
        /\ ~Has(trace, "capture")
        /\ files = 0
        /\ ~parsed
        /\ pc = "finally" => pending \in {"1", "exception"}
        /\ pc = "done" => exit \in {"1", "exception"}

C2_Witness ==
    /\ pc = "done"
    /\ loginRet = "false"
    /\ exit = "1"
    /\ Has(lui, "reload")

\* C3: wait_for_solve_completion called with a timeout of 0 seconds makes
\* exactly one completion check before it returns False.
C3_OneCheckAtZeroTimeout ==
    (Has(trace, "poll_end") /\ timeout_seconds = 0) =>
        (checks = 1 /\ completed = "False")

\* C4: when the poll times out after Optimise was clicked, the solve stage
\* does not fail: the markup is captured and written and the stage returns a
\* result carrying it.
C4_TimeoutStillCaptures ==
    (completed = "False" /\ pc \in {"parse", "email", "done"}) =>
        /\ solve_results = "results"
        /\ Has(trace, "capture")
        /\ files = 1

\* C5: when the Optimise control is not visible or not interactive, the solve
\* stage fails without a result: the control is not clicked, the completion
\* poll is never started, no markup is captured or written, and a control
\* that is not visible makes run_solve_on_page return None.
C5_NoTriggerNoSolve ==
    optimise \in {"hidden", "disabled"} =>
        /\ optimise = "hidden" => solve_results = "None"
        /\ solve_results # "results"
        /\ ~Has(trace, "optimise_click")
        /\ checks = 0
        /\ completed = "none"
        /\ ~Has(trace, "poll_end")
        /\ ~Has(trace, "capture")
        /\ files = 0
        /\ ~parsed
        /\ pc \in {"finally", "done"}
        /\ pc = "finally" => pending \in {"1", "exception"}
        /\ pc = "done" => exit \in {"1", "exception"}

C5_Witness ==
    /\ pc = "done"
    /\ optimise = "hidden"
    /\ solve_results = "None"
    /\ exit = "1"
    /\ Has(trace, "settings_end")

\* C6: every run terminates, and it ends either with parsed results or with
\* an explicit failure indication (exit code 1 or an exception that leaves
\* main); no poll or wait goes on forever.
C6_Terminates ==
    /\ <>(pc = "done")
    /\ [](pc = "done" =>
            \/ (exit = "0" /\ parsed)
            \/ exit \in {"1", "exception"})

C6_Witness ==
    /\ pc = "done"
    /\ exit = "0"
    /\ completed = "False"
    /\ checks > 1
    /\ Has(trace, "login_begin")

\* C7: when the slider's value differs from the clamped target, the horizon
\* block presses Home once and then ArrowRight exactly (target - min) times,
\* every ArrowRight after the Home; with min 1 that is target - 1 presses.
C7_HomeThenSteps ==
    /\ pc \in {"h_home", "h_step", "h_verify"} =>
           frame.current_val # frame.target_val
    /\ pc \in {"h_step", "h_verify"} =>
           /\ Count(ui, "Home") = 1
           /\ Count(ui, "ArrowRight") <= frame.target_val - frame.min_val
           /\ \A k \in 1..Len(ui) :
                  ui[k] = "ArrowRight" => First(ui, "Home") < k
    /\ (pc = "h_verify" \/ (frame.horizon_end = "stepped" /\ pc = "h_escape")) =>
           /\ Count(ui, "ArrowRight") = frame.target_val - frame.min_val
           /\ frame.min_val = 1 =>
                  Count(ui, "ArrowRight") = frame.target_val - 1
           /\ ui = <<"click_horizon", "focus", "Home">> \o
                     [k \in 1..(frame.target_val - frame.min_val) |-> "ArrowRight"]

C7_Witness ==
    /\ pc = "h_verify"
    /\ frame.min_val = 1
    /\ frame.max_val = 10
    /\ frame.horizon_weeks = 4
    /\ frame.target_val = 4
    /\ Count(ui, "ArrowRight") = 3

\* C8: the horizon target is the desired value clamped into the slider's
\* [min, max], so it lies in that range; after stepping, the horizon is
\* marked applied if and only if the value re-read from the slider equals
\* the clamped target.
C8_ClampAndVerify ==
    /\ frame.target_val # Absent =>
           /\ frame.min_val <= frame.target_val
           /\ frame.target_val <= frame.max_val
           /\ frame.target_val =
                  IF frame.horizon_weeks < frame.min_val THEN frame.min_val
                  ELSE IF frame.horizon_weeks > frame.max_val THEN frame.max_val
                  ELSE frame.horizon_weeks
    /\ (pc = "h_escape" /\ frame.horizon_end = "stepped") =>
           (frame.horizon_success <=> slider.now = frame.target_val)

C8_Witness ==
    /\ pc = "h_escape"
    /\ frame.horizon_end = "stepped"
    /\ frame.horizon_weeks > frame.max_val
    /\ frame.target_val = frame.max_val
    /\ frame.horizon_success

\* C9: when the slider's value already equals the clamped target, the
\* horizon is marked applied and the slider is left alone: no focus, Home or
\* ArrowRight is issued, only the Escape that closes the modal.
C9_AlreadyEqual ==
    (frame.target_val # Absent /\ frame.current_val = frame.target_val) =>
        /\ pc \in {"h_escape", "d_start", "as_except", "rsp_timeout"}
        /\ pc # "as_except" => frame.horizon_success
        /\ pc = "h_escape" => ui = <<"click_horizon">>
        /\ pc = "d_start" => ui = <<"click_horizon", "Escape">>
        /\ ~Has(ui, "focus") /\ ~Has(ui, "Home") /\ ~Has(ui, "ArrowRight")
        /\ Get(slider.now, DefaultSliderNow) = frame.current_val

C9_Witness ==
    /\ pc = "d_start"
    /\ frame.horizon_end = "equal"
    /\ frame.horizon_success
    /\ ui = <<"click_horizon", "Escape">>

\* C10: whenever the horizon button was clicked, an Escape closing the modal
\* has been pressed by the time the settings stage goes on to the disruption
\* setting or returns, whatever happened in between.
C10_ModalAlwaysClosed ==
    (pc \in {"d_start", "rsp_timeout"} /\ Has(ui, "click_horizon")) =>
        (Has(ui, "Escape") /\ Last(ui, "Escape") > First(ui, "click_horizon"))

SettingsPcs ==
    {"as_start", "d_start", "as_return", "as_except", "rsp_timeout"}
        \cup HorizonPcs \cup DdpPcs

\* C11: in every execution of the settings stage the disruption setting is
\* attempted (the settings wheel is looked up) before the stage returns,
\* however the horizon block ended, an error in the horizon block included.
C11_DisruptionAlwaysAttempted ==
    pc = "rsp_timeout" => frame.decision_end # "none"

\* C12: apply_solver_settings returns True if and only if horizon_success or
\* decision_success is set, on every path; a horizon that was applied gives
\* True whatever happens afterwards in the disruption block.
C12_SuccessIsOr ==
    pc = "rsp_timeout" =>
        (frame.ret = "True" <=>
            (frame.horizon_success \/ frame.decision_success))

\* C13: a missing control never makes the settings stage raise: the absence
\* of the horizon button, the slider, the settings wheel, the Settings
\* button, the Optimisation tab or the preset button leaves the
\* corresponding success flag false, apply_solver_settings returns a value,
\* and the only way out of the stage leads to the Optimise click.
C13_AbsenceNeverRaises ==
    /\ [](/\ frame.horizon_end \in {"button_absent", "slider_absent"} =>
                ~frame.horizon_success
          /\ frame.decision_end \in {"wheel_absent", "settings_absent",
                                     "tab_absent", "preset_absent"} =>
                ~frame.decision_success
          /\ pc \in SettingsPcs => pending = "none" /\ exit = "running"
          /\ pc = "rsp_timeout" => frame.ret \in {"True", "False"}
          /\ (/\ pc = "rsp_timeout"
              /\ frame.horizon_end \in {"button_absent", "slider_absent"}
              /\ frame.decision_end \in {"wheel_absent", "settings_absent",
                                         "tab_absent", "preset_absent"}) =>
                frame.ret = "False")
    /\ [][/\ pc \in SettingsPcs => pc' \in SettingsPcs \cup {"opt"}
          /\ pc = "rsp_timeout" => pc' = "opt"]_vars

C13_Witness ==
    /\ pc = "rsp_timeout"
    /\ frame.horizon_end = "slider_absent"
    /\ frame.decision_end = "tab_absent"
    /\ frame.ret = "False"

\* C14: for every probability p of [0, 1] the preset chosen is the anchor of
\* {0.0, 0.25, 0.5, 0.75, 1.0} nearest to p, the lower one when two anchors
\* are equally near (0.125 gives Clear Skies, 0.6 Cloudy, 0.9 Storm), and
\* the button looked up and clicked carries that anchor's name.
C14_NearestPresetLowerOnTie ==
    frame.preset # "" =>
        LET p == Get(settings.ddp, DefaultDdp)
            k == CHOOSE i \in 1..Len(PresetNames) : PresetNames[i] = frame.preset
            a == PresetAnchors[k]
        IN  /\ \A j \in 1..Len(PresetAnchors) :
                   /\ Abs(a - p) <= Abs(PresetAnchors[j] - p)
                   /\ Abs(a - p) = Abs(PresetAnchors[j] - p) =>
                          a <= PresetAnchors[j]
            /\ p = 125 => frame.preset = "Clear Skies"
            /\ p = 600 => frame.preset = "Cloudy"
            /\ p = 900 => frame.preset = "Storm"
            /\ frame.decision_success => ui[Len(ui)] \in {"click_preset", "Escape"}

C14_Witness ==
    /\ pc = "d_escape"
    /\ settings.ddp = 125
    /\ frame.preset = "Clear Skies"
    /\ ui = <<"click_wheel", "click_settings", "click_tab", "click_preset">>

\* C15: decision_success is set if and only if the wheel, the Settings
\* button and the Optimisation tab were clicked in that order and the preset
\* button was then found and clicked; when a control of the chain is absent
\* no later control is clicked and the flag stays false.
C15_AppliedIffChainClicked ==
    /\ frame.decision_success <=> Has(ui, "click_preset")
    /\ Has(ui, "click_preset") =>
           /\ Len(ui) >= 4
           /\ SubSeq(ui, 1, 4) =
                  <<"click_wheel", "click_settings", "click_tab", "click_preset">>
           /\ frame.decision_end \in {"clicked", "raised"}
    /\ frame.decision_end = "wheel_absent" =>
           ui = <<>> /\ ~frame.decision_success
    /\ frame.decision_end = "settings_absent" =>
           ui = <<"click_wheel", "Escape">> /\ ~frame.decision_success
    /\ frame.decision_end = "tab_absent" =>
           /\ ui = <<"click_wheel", "click_settings", "Escape">>
           /\ ~frame.decision_success
    /\ frame.decision_end = "preset_absent" =>
           /\ ui \in {<<"click_wheel", "click_settings", "click_tab">>,
                      <<"click_wheel", "click_settings", "click_tab", "Escape">>}
           /\ ~frame.decision_success

C15_Witness ==
    /\ pc = "as_return"
    /\ frame.decision_success
    /\ frame.decision_end = "clicked"
    /\ ui = <<"click_wheel", "click_settings", "click_tab", "click_preset",
              "Escape">>

\* C16: whenever the settings wheel was clicked, an Escape closing the
\* settings dialog has been pressed, after every click, by the time
\* apply_solver_settings returns, a failing click included.
C16_SettingsDialogAlwaysClosed ==
    (pc = "rsp_timeout" /\ Has(ui, "click_wheel")) =>
        ui[Len(ui)] = "Escape"

\* C17: is_logged_in returns True when the dialog is not visible at the
\* first inspection or is gone at the re-check, and returns False only when
\* the dialog was visible at the first inspection and at the re-check.
C17_AuthCheckDebounced ==
    /\ pc = "l_wait_dialog" => seen = <<TRUE, TRUE>>
    /\ (pc = "rsp_wait" /\ ~Has(trace, "login_begin")) =>
           seen \in {<<FALSE>>, <<TRUE, FALSE>>}
    /\ pc = "ili_recheck" => seen = <<TRUE>>

\* C18: login_to_solio is entered only after is_logged_in returned False:
\* when is_logged_in returns True (the last look at the dialog found it not
\* visible) ensure_logged_in returns True at once and no step of the login
\* protocol has run; the protocol is entered at most once in a run.
C18_LoginOnlyWhenUnauthenticated ==
    /\ (Len(seen) > 0 /\ ~seen[Len(seen)]) =>
           /\ pc \in {"rsp_wait", "finally", "done"}
           /\ loginRet = "true"
           /\ lui = <<>>
           /\ roundtrip = "none"
           /\ ~Has(trace, "login_begin")
           /\ ~Has(trace, "login_failed")
    /\ (pc \in {"l_wait_dialog", "l_terms", "l_poll", "l_click", "l_redirect",
                "l_popup", "l_settle", "l_reload"}
          \/ lui # <<>> \/ roundtrip # "none" \/ Has(trace, "login_begin")) =>
           seen \in {<<>>, <<TRUE, TRUE>>}
    /\ Count(trace, "login_begin") <= 1
    /\ Count(lui, "terms_click") <= 1
    /\ Count(lui, "google_click") <= 1

C18_Witness ==
    /\ pc = "rsp_wait"
    /\ seen = <<TRUE, FALSE>>
    /\ loginRet = "true"
    /\ lui = <<>>
    /\ trace = <<"login_ok">>

\* C19: the identity-provider button is clicked only after a poll check saw
\* it enabled; when the poll runs out without that, login_to_solio returns
\* False with the button never clicked and no redirect or popup wait entered.
C19_ClickOnlyWhenEnabled ==
    /\ [](/\ Has(lui, "google_click") =>
                /\ Has(lui, "button_enabled")
                /\ First(lui, "button_enabled") < First(lui, "google_click")
          /\ pc \in {"l_click", "l_redirect", "l_popup", "l_settle", "l_reload"} =>
                Has(lui, "button_enabled")
          /\ roundtrip # "none" => Has(lui, "google_click")
          /\ (loginRet = "false" /\ ~Has(lui, "button_enabled")) =>
                /\ lui = <<"terms_click">>
                /\ roundtrip = "none")
    /\ [][(pc = "l_poll" /\ elapsed >= LoginButtonMaxWait) =>
              /\ loginRet' = "false"
              /\ pc' = "finally"
              /\ pending' = "1"
              /\ lui' = lui]_vars

C19_Witness ==
    /\ pc = "done"
    /\ loginRet = "false"
    /\ exit = "1"
    /\ lui = <<"terms_click">>
    /\ roundtrip = "none"

\* C20: after the redirect or popup branch login_to_solio returns True when
\* the dialog became hidden within the wait; otherwise it reloads the page
\* exactly once and returns True if and only if the dialog is not visible at
\* that one re-check, else False.  It never returns True with the dialog
\* last seen visible and never reloads twice.
C20_HiddenOrOneReload ==
    /\ Count(lui, "reload") <= 1
    /\ Has(lui, "reload") =>
           /\ First(lui, "reload") > 1
           /\ lui[First(lui, "reload") - 1] = "dialog_visible"
           /\ First(lui, "reload") = Len(lui) - 1
    /\ (pc = "rsp_wait" /\ Has(trace, "login_begin")) =>
           /\ loginRet = "true"
           /\ lui \in {<<"terms_click", "button_enabled", "google_click",
                         "dialog_hidden">>,
                       <<"terms_click", "button_enabled", "google_click",
                         "dialog_visible", "reload", "dialog_hidden">>}
    /\ (loginRet = "false" /\ Has(lui, "google_click")) =>
           lui = <<"terms_click", "button_enabled", "google_click",
                   "dialog_visible", "reload", "dialog_visible">>
    /\ (Len(lui) > 0 /\ lui[Len(lui)] = "dialog_visible") =>
           loginRet \in {"none", "false", "raised"}

C20_Witness ==
    /\ pc = "rsp_wait"
    /\ loginRet = "true"
    /\ roundtrip = "popup_timeout"
    /\ lui = <<"terms_click", "button_enabled", "google_click",
               "dialog_visible", "reload", "dialog_hidden">>

(***************************************************************************)
(* Claims C21 to C30.                                                      *)
(***************************************************************************)

\* C21: when the identity-provider round trip does not complete within its
\* bound (the redirect does not come back, the popup does not close), login
\* does not end as authenticated.
C21_RoundTripTimeoutFails ==
    roundtrip \in {"redirect_timeout", "popup_timeout"} => loginRet # "true"

\* C22: when the login dialog does not appear within the wait that opens the
\* login protocol, login fails there: nothing else is done on the page (no
\* terms toggle, no identity-provider button), the failure leaves
\* ensure_logged_in as an exception, and the run is aborted with the browser
\* closed and no later stage entered.
C22_DialogNotFoundAborts ==
    Has(lui, "dialog_not_found") =>
        /\ lui = <<"dialog_not_found">>
        /\ loginRet = "raised"
        /\ pc \in {"finally", "done"}
        /\ pc = "finally" => pending = "exception"
        /\ pc = "done" => exit = "exception" /\ ~browserOpen
        /\ ~Has(trace, "login_ok")
        /\ ~Has(trace, "settings_begin")
        /\ ~Has(trace, "optimise_click")
        /\ files = 0
        /\ ~parsed

C22_Witness ==
    /\ pc = "done"
    /\ lui = <<"dialog_not_found">>
    /\ exit = "exception"

\* C23: the only operation performed on the popup page is is_closed(), and
\* while the popup poll runs nothing is done on the main page.
C23_PopupOnlyObserved ==
    /\ [](popup \subseteq {"is_closed"})
    /\ [][pc = "l_popup" =>
            /\ lui' = lui
            /\ trace' = trace
            /\ pc' \in {"l_popup", "l_settle"}]_vars

C23_Witness ==
    /\ popup = {"is_closed"}
    /\ roundtrip = "popup_timeout"
    /\ pc = "l_settle"

\* the stages of a run in the order main and run_solve_on_page go through
\* them
StageRank(p) ==
    CASE p = "main" -> 0
      [] p \in {"goto", "ili_wait", "ili_first", "ili_recheck"} -> 1
      [] p \in {"l_wait_dialog", "l_terms", "l_poll", "l_click", "l_redirect",
                "l_popup", "l_settle", "l_reload"} -> 2
      [] p \in {"rsp_wait", "rsp_load"} -> 3
      [] p \in {"as_start"} \cup HorizonPcs -> 4
      [] p \in {"d_start"} \cup DdpPcs -> 5
      [] p \in {"as_except", "as_return", "rsp_timeout"} -> 6
      [] p = "opt" -> 7
      [] p = "poll" -> 8
      [] p \in {"fetch_idle", "fetch_content", "fetch_write"} -> 9
      [] p = "finally" -> 10
      [] p = "parse" -> 11
      [] p = "email" -> 12
      [] p = "done" -> 13

\* C24: a run goes through each stage at most once: one login attempt, one
\* attempt at each of the two settings, one click on Optimise, one capture;
\* no step leads back to a stage already left, a failed one included.
C24_SinglePass ==
    /\ [](/\ Count(trace, "login_begin") <= 1
          /\ Count(lui, "google_click") <= 1
          /\ Count(trace, "settings_begin") <= 1
          /\ Count(ui, "click_horizon") <= 1
          /\ Count(ui, "click_wheel") <= 1
          /\ Count(trace, "optimise_click") <= 1
          /\ Count(trace, "capture") <= 1
          /\ files <= 1)
    /\ [][StageRank(pc') >= StageRank(pc)]_vars

C24_Witness ==
    /\ pc = "rsp_timeout"
    /\ frame.ret = "False"
    /\ frame.horizon_end = "raised"
    /\ Count(ui, "click_horizon") = 1
    /\ Count(trace, "settings_begin") = 1

\* C25: a snapshot file, once written, is never overwritten: every file of
\* OUTPUT_DIR is still there with the same content after any step, whatever
\* the clock reads at the later captures.
C25_NeverOverwritten ==
    [][\A n \in DOMAIN output_dir :
          /\ n \in DOMAIN output_dir'
          /\ output_dir'[n] = output_dir[n]]_vars

\* C26: a solve attempt in which Optimise was clicked ends with exactly one
\* snapshot written and its path returned, whatever the page did afterwards.
C26_ClickedAttemptWritesOne ==
    (Has(trace, "optimise_click") /\ pc \in {"parse", "email", "done"}) =>
        /\ files = 1
        /\ solve_results = "results"
        /\ "output_file" \in DOMAIN results

\* C27: the outcome the solve stage returns carries a field completed, true
\* exactly when the poll saw the completion marker.
C27_OutcomeCarriesCompleted ==
    solve_results = "results" =>
        /\ "completed" \in DOMAIN results
        /\ results.completed = (completed = "True")

\* C28: the poll returns True exactly when a check saw 'Preview Result', and
\* then at once; a check that does not see it is followed by the sleep and
\* the next evaluation of the loop condition; no check is started when the
\* elapsed time has reached timeout_seconds.
C28_PollReturnsTrueIffSeen ==
    /\ [](/\ completed = "True" <=> marker = "visible"
          /\ pc = "poll" => completed = "none" /\ marker # "visible")
    /\ [][pc = "poll" =>
            /\ checks' # checks =>
                 /\ elapsed < timeout_seconds
                 /\ checks' = checks + 1
                 /\ marker' \in {"visible", "hidden"}
            /\ marker' = "visible" =>
                 /\ pc' = "fetch_idle"
                 /\ completed' = "True"
                 /\ checks' = checks + 1
            /\ pc' = "poll" =>
                 /\ marker' = "hidden"
                 /\ checks' = checks + 1
                 /\ elapsed' >= elapsed + PollInterval
            /\ elapsed >= timeout_seconds =>
                 /\ checks' = checks
                 /\ completed' = "False"
                 /\ pc' = "fetch_idle"]_vars

C28_Witness ==
    /\ pc = "fetch_idle"
    /\ completed = "True"
    /\ marker = "visible"
    /\ checks >= 2

\* the first integer embedded in each of the labels looked at, written out
C29_Number(label) ==
    CASE label = <<"G", "W", "1">> -> 1
      [] label = <<"G", "W", "3">> -> 3
      [] label = <<"G", "W", "1", "7">> -> 17
      [] label = <<"G", "W">> -> 0
      [] label = <<"W", "k", "3">> -> 3
      [] label = <<"2", "a", "1">> -> 2

C29_Labels(plans) == [i \in 1..Len(plans) |-> plans[i].gameweek]

\* C29: the plans the parser returns are in non-decreasing order of the
\* first integer embedded in the gameweek label, a label without digits
\* counting as 0; regions labelled GW3, GW17, GW1 come out as GW1, GW3, GW17.
C29_SortedByEmbeddedInteger ==
    parsed =>
        LET plans == parse_out.gameweek_plans
        IN  /\ \A i \in 1..Len(plans) : \A j \in i..Len(plans) :
                  C29_Number(plans[i].gameweek) <= C29_Number(plans[j].gameweek)
            /\ \A i \in 1..Len(plans) :
                  C29_Number(plans[i].gameweek) = 0 =>
                      \A j \in 1..(i - 1) : C29_Number(plans[j].gameweek) = 0
            /\ C29_Labels(html_content.plan_nodes) =
                    <<<<"G", "W", "3">>, <<"G", "W", "1", "7">>, <<"G", "W", "1">>>>
                 /\ (\A k \in 1..3 : html_content.plan_nodes[k].gw_elem)
               => C29_Labels(plans) =
                    <<<<"G", "W", "1">>, <<"G", "W", "3">>, <<"G", "W", "1", "7">>>>

C29_Witness ==
    /\ parsed
    /\ Len(html_content.plan_nodes) = 3
    /\ \A k \in 1..3 : html_content.plan_nodes[k].gw_elem
    /\ C29_Labels(html_content.plan_nodes) =
          <<<<"G", "W", "3">>, <<"G", "W", "1", "7">>, <<"G", "W", "1">>>>
    /\ C29_Labels(parse_out.gameweek_plans) =
          <<<<"G", "W", "1">>, <<"G", "W", "3">>, <<"G", "W", "1", "7">>>>

\* the transfers the claim asks of a region: as many as the shorter of the
\* two name lists has, the i-th outgoing name with the i-th incoming name; a
\* missing sub-region counts as an empty list
C30_Expected(node) ==
    LET outs == IF node.transfer_div /\ node.out_div THEN node.out_players ELSE <<>>
        ins  == IF node.transfer_div /\ node.in_div THEN node.in_players ELSE <<>>
    IN  [i \in 1..Min(Len(outs), Len(ins)) |->
            [out_player |-> outs[i], in_player |-> ins[i]]]

\* the plan regions that carry a gameweek label element
C30_Labelled(html) == SelectSeq(html.plan_nodes, LAMBDA node : node.gw_elem)

\* C30: the transfers of a plan are the pairs (i-th outgoing, i-th incoming)
\* up to the length of the shorter list of its region, none when the
\* outgoing or the incoming sub-region is missing: every plan returned is
\* the plan of a region with exactly these transfers, and every labelled
\* region has such a plan.
C30_TransfersTruncatedPairs ==
    parsed =>
        LET plans == parse_out.gameweek_plans
            nodes == C30_Labelled(html_content)
        IN  /\ Len(plans) = Len(nodes)
            /\ \A i \in 1..Len(plans) : \E k \in 1..Len(nodes) :
                  /\ plans[i].gameweek = nodes[k].gameweek
                  /\ plans[i].transfers = C30_Expected(nodes[k])
            /\ \A k \in 1..Len(nodes) : \E i \in 1..Len(plans) :
                  /\ plans[i].gameweek = nodes[k].gameweek
                  /\ plans[i].transfers = C30_Expected(nodes[k])
                  /\ Len(plans[i].transfers) <= Len(nodes[k].out_players)
                  /\ Len(plans[i].transfers) <= Len(nodes[k].in_players)
                  /\ ~nodes[k].out_div \/ ~nodes[k].in_div =>
                        plans[i].transfers = <<>>

C30_Witness ==
    /\ parsed
    /\ Len(html_content.plan_nodes) = 1
    /\ html_content.plan_nodes[1].gw_elem
    /\ Len(html_content.plan_nodes[1].out_players) = 3
    /\ Len(html_content.plan_nodes[1].in_players) = 2
    /\ parse_out.gameweek_plans[1].transfers =
          <<[out_player |-> "Salah", in_player |-> "Palmer"],
            [out_player |-> "Haaland", in_player |-> "Isak"]>>

\* C37: in popup mode the page polled for closure is one the click opened,
\* never a page the context already held before the click.
C37_PopupOpenedByClick == pc = "l_popup" => popup_page = "opened_by_click"

\* C38: the click is followed by exactly one of three branches, chosen by the
\* one observation made after the settle delay: redirect, popup, or neither.
\* In the third the protocol makes no identity-provider wait (no wait for a
\* URL, no poll of a popup) and goes straight to the wait for the dialog to
\* be hidden; the outcome is then decided by the dialog alone (hidden at the
\* wait or after the one reload: authenticated, still visible: failed), and a
\* redirect or popup that comes later is never registered or waited for.
C38_OneObservationThreeBranches ==
    /\ [](/\ roundtrip = "redirect" => pc = "l_redirect"
          /\ roundtrip = "popup" => pc = "l_popup"
          /\ roundtrip = "neither" =>
                /\ pc \in {"l_settle", "l_reload", "rsp_wait", "finally", "done"}
                /\ popup = {}
                /\ popup_page = "none"
                /\ loginRet = "true" <=> lui[Len(lui)] = "dialog_hidden"
                /\ loginRet = "false" <=>
                      SubSeq(lui, Len(lui) - 2, Len(lui)) =
                          <<"dialog_visible", "reload", "dialog_visible">>)
    /\ [][/\ (pc = "l_click" /\ pc' # "finally") =>
                 /\ pc' \in {"l_redirect", "l_popup", "l_settle"}
                 /\ pc' = "l_redirect" <=> roundtrip' = "redirect"
                 /\ pc' = "l_popup" <=> roundtrip' = "popup"
                 /\ pc' = "l_settle" <=> roundtrip' = "neither"
          /\ roundtrip = "neither" =>
                 /\ roundtrip' \in {"neither", "none"}
                 /\ pc' \notin {"l_redirect", "l_popup"}]_vars

C38_Witness ==
    /\ pc = "rsp_wait"
    /\ roundtrip = "neither"
    /\ loginRet = "true"
    /\ lui = <<"terms_click", "button_enabled", "google_click", "dialog_hidden">>

\* the value the layering gives a key: the override when one was supplied,
\* else the loaded value when the file has one, else the default
C33_Resolved(override, loaded, default) ==
    IF override # Absent THEN override
    ELSE IF loaded # Absent THEN loaded
    ELSE default

\* C33: the configuration is resolved by layering defaults, the settings
\* file, and the overrides of the invocation.  For the horizon and the
\* disruption probability the value in force is the override when one was
\* supplied, else the loaded value, else the default (10 weeks); an override
\* that was not supplied never replaces a loaded value; the timeout in force
\* is the loaded one, else 300.  The stage works with exactly these: the
\* mapping does not change while it runs, the horizon it takes and the preset
\* it derives are those in force, and the poll gets the timeout in force.
C33_LayeredResolution ==
    /\ [](settings_file # Nothing =>
            /\ pc = "as_start"
            /\ C33_Resolved(settings.horizon_weeks, Absent, 10) =
                  C33_Resolved(args.horizon, settings_file.horizon_weeks, 10)
            /\ C33_Resolved(settings.ddp, Absent, DefaultDdp) =
                  C33_Resolved(args.ddp, settings_file.ddp, DefaultDdp)
            /\ C33_Resolved(settings.timeout, Absent, 300) =
                  C33_Resolved(Absent, settings_file.timeout, 300)
            /\ (args.horizon = Absent /\ settings_file.horizon_weeks # Absent) =>
                  settings.horizon_weeks = settings_file.horizon_weeks
            /\ (args.ddp = Absent /\ settings_file.ddp # Absent) =>
                  settings.ddp = settings_file.ddp)
    /\ [][/\ settings' # settings => pc \in {"rsp_load", "rsp_timeout"}
          /\ (settings_file # Nothing /\ frame'.horizon_weeks # Absent) =>
                frame'.horizon_weeks =
                    C33_Resolved(args.horizon, settings_file.horizon_weeks, 10)
          /\ (frame'.preset # frame.preset /\ frame'.preset # "") =>
                frame'.preset =
                    PresetNames[ClosestPreset(
                        C33_Resolved(settings.ddp, Absent, DefaultDdp))]
          /\ pc = "rsp_timeout" =>
                timeout_seconds' = C33_Resolved(settings.timeout, Absent, 300)]_vars

\* the file gives a horizon and a probability, the invocation overrides the
\* probability alone: the mapping in force has the override's probability
\* and still the file's horizon
C33_Witness ==
    /\ pc = "as_start"
    /\ settings_file # Nothing
    /\ args.horizon = Absent
    /\ settings_file.horizon_weeks = 2
    /\ settings.horizon_weeks = 2
    /\ args.ddp = 900
    /\ settings_file.ddp = 125
    /\ settings.ddp = 900

\* C40: when the resolved configuration has no decision disruption
\* probability, the stage works with 0.5: the preset it looks for is Cloudy,
\* and where the chain of controls and the preset button are there the one
\* preset click made is the click on Cloudy, which makes the decision a
\* success.
C40_DefaultProbabilityCloudy ==
    /\ [](settings.ddp = Absent =>
            /\ frame.preset \in {"", "Cloudy"}
            /\ frame.decision_end = "clicked" =>
                  /\ frame.preset = "Cloudy"
                  /\ frame.decision_success
                  /\ Count(ui, "click_preset") = 1)
    /\ [][(pc = "d_preset" /\ settings.ddp = Absent /\ pc' = "d_escape") =>
            /\ frame'.preset = "Cloudy"
            /\ frame'.decision_end \in {"clicked", "preset_absent"}
            /\ frame'.decision_end = "clicked" <=>
                  ui' = Append(ui, "click_preset")]_vars

C40_Witness ==
    /\ pc = "d_escape"
    /\ args.ddp = Absent
    /\ settings.ddp = Absent
    /\ frame.decision_end = "clicked"
    /\ frame.preset = "Cloudy"
    /\ Count(ui, "click_preset") = 1

\* C36: once main has the browser context, the context is closed and the
\* driver stopped exactly once on every way out of the solve block (the solve
\* succeeded, login failed, the solve failed, a stage raised), never twice,
\* and never in a run that skips the solve; parsing and e-mailing never run
\* with the browser open.
C36_ClosedExactlyOnce ==
    /\ [](/\ Count(trace, "browser_closed") <= 1
          /\ browserOpen <=>
                /\ ~args.no_solve
                /\ pc \notin {"main", "parse", "email", "done"}
          /\ (~args.no_solve /\ pc \in {"parse", "email", "done"}) =>
                Count(trace, "browser_closed") = 1
          /\ args.no_solve => Count(trace, "browser_closed") = 0
          /\ (parsed \/ parse_log # <<>> \/ mail # "none") => ~browserOpen)
    /\ [][(browserOpen /\ pc' \in {"parse", "email", "done"}) =>
            /\ pc = "finally"
            /\ ~browserOpen'
            /\ trace' = Append(trace, "browser_closed")]_vars

\* a stage raised after login: the run has ended with the browser closed once
C36_Witness ==
    /\ pc = "done"
    /\ exit = "exception"
    /\ Has(trace, "settings_begin")
    /\ parse_log = <<>>
    /\ Count(trace, "browser_closed") = 1
    /\ ~browserOpen

C32_OnePlanPerRegion ==
    parsed => Len(parse_out.gameweek_plans) = Len(html_content.plan_nodes)

\* the number each text of the evaluation region stands for, written out
\* (points and bank in tenths, the transfer count as it is); 0 for a text
\* that holds no number
C31_Number(text) ==
    CASE text = <<"6", ".", "5">> -> 65
      [] text = <<"6", "5">> -> 650
      [] text = <<"b", "0", ".", "1">> -> 1
      [] text = <<"1", "0">> -> 10
      [] OTHER -> 0

\* the values the claim asks of a returned SolveResults: each number 0 when
\* its element is absent or its text is not a number, each string of a plan
\* empty exactly when its element is absent
C31_Defaults(html, out) ==
    LET e == html.eval
        nodes == SelectSeq(html.plan_nodes, LAMBDA node : node.gw_elem)
    IN  /\ out.total_points =
              IF e.eval_node /\ e.pts_span THEN C31_Number(e.pts_text) ELSE 0
        /\ out.final_bank =
              IF e.eval_node /\ e.bank_p THEN C31_Number(e.bank_text) ELSE 0
        /\ out.total_transfers =
              IF e.eval_node /\ e.count_p THEN C31_Number(e.count_text) ELSE 0
        /\ html.plan_nodes = <<>> => out.gameweek_plans = <<>>
        /\ Len(nodes) = 1 =>
              /\ Len(out.gameweek_plans) = 1
              /\ out.gameweek_plans[1].grade = "" <=> ~nodes[1].grade_elem
              /\ out.gameweek_plans[1].points_range = "" <=> ~nodes[1].grade_elem
              /\ out.gameweek_plans[1].transfers_used = "" <=> ~nodes[1].transfers_p
              /\ out.gameweek_plans[1].bank = "" <=> ~nodes[1].bank_p

\* C31: the parser is total: for every markup, whatever is missing or cannot
\* be read as a number, parse_results_html returns a SolveResults value and
\* does not raise, with 0 for the totals and empty strings for exactly the
\* fields that are absent.
C31_ParserTotal ==
    \A i \in 1..Len(parse_log) :
        /\ "raised" \notin DOMAIN parse_log[i].out
        /\ C31_Defaults(parse_log[i].html, parse_log[i].out)

\* the part of C31 that holds: whenever parse_results_html returns, the
\* totals and the strings are as C31 says
C31_DefaultsWhenReturned ==
    \A i \in 1..Len(parse_log) :
        "raised" \notin DOMAIN parse_log[i].out =>
            C31_Defaults(parse_log[i].html, parse_log[i].out)

\* the plan is the plan of the region: its label, its grade and its transfers
C39_Same(plan, node) ==
    /\ plan.gameweek = node.gameweek
    /\ plan.grade = (IF node.grade_elem THEN node.grade ELSE "")
    /\ plan.transfers = C30_Expected(node)

\* C39: the ordering is stable and loses nothing: there are as many plans as
\* labelled regions, and for each number the plans of that number (the same
\* number in their labels, or no digits in either) are the plans of the
\* regions of that number, in the order the regions have in the markup.
C39_StablePermutation ==
    parsed =>
        LET plans == parse_out.gameweek_plans
            nodes == C30_Labelled(html_content)
        IN  /\ Len(plans) = Len(nodes)
            /\ \A v \in {0, 1, 2, 3, 17} :
                  LET ps == SelectSeq(plans, LAMBDA p : C29_Number(p.gameweek) = v)
                      ns == SelectSeq(nodes, LAMBDA n : C29_Number(n.gameweek) = v)
                  IN  /\ Len(ps) = Len(ns)
                      /\ \A k \in 1..Len(ps) : C39_Same(ps[k], ns[k])

\* regions Wk3, GW3, GW1 come out as GW1, Wk3, GW3
C39_Witness ==
    /\ parsed
    /\ Len(html_content.plan_nodes) = 3
    /\ \A k \in 1..3 : html_content.plan_nodes[k].gw_elem
    /\ C29_Labels(html_content.plan_nodes) =
          <<<<"W", "k", "3">>, <<"G", "W", "3">>, <<"G", "W", "1">>>>
    /\ C29_Labels(parse_out.gameweek_plans) =
          <<<<"G", "W", "1">>, <<"W", "k", "3">>, <<"G", "W", "3">>>>

====
